---- MODULE Spec2Model ----
(***************************************************************************)
(* A model of the Crayon cost MCP server: the tool-call handler with its   *)
(* input validation (src/unnamed/part_000, src/src/index.ts,               *)
(* src/src/middleware/validation.ts), the upstream client's token cache    *)
(* (src/src/crayon-client.ts) and the circuit-breaker wrapper              *)
(* (src/unnamed/part_001).                                                 *)
(***************************************************************************)
EXTENDS Integers, Sequences, FiniteSets, TLC

VARIABLES
  \* ---- tool-call handler (part_000 / index.ts) ----
  config,         \* the process: entry file, TRANSPORT_MODE, AUTH_ENABLED
  hpc,            \* position of the handler: idle, validate, dispatch, client, returned
  request,        \* the tool call being served: name, args, user, transport
  validatedArgs,  \* the handler's local validatedArgs
  invoked,        \* CrayonApiClient operations invoked for the call (in order)
  pending,        \* number of invoked client operations still awaited
  response,       \* the payload the handler returned
  error,          \* the error the handler's outer catch block caught ("" when none)
  \* ---- CrayonApiClient token cache and operations (crayon-client.ts) ----
  now,            \* Date.now() / 1000
  accessToken,    \* this.accessToken (NoToken is null)
  tokenExpiry,    \* this.tokenExpiry
  fibers,         \* the running async client operations
  lastRequest,    \* the upstream request the latest step sent or had answered, if any
  \* ---- circuit breaker (part_001, opossum) ----
  state,          \* breaker state: closed, open, halfOpen
  pendingClose,   \* half-open probe slot still free
  window,         \* breaker.stats: fires and failures summed over the rolling window
  timers,         \* pending timers in the order they were armed
  lastExecute,    \* what the latest step did to an execute() call, if anything
  \* ---- a function of the program applied to an input on its own ----
  callee,         \* the function applied last
  input,          \* its arguments
  output,         \* what it returned, sent and logged
  \* ---- the HTTP endpoint ----
  transports,     \* the transports map: session id -> transport
  sessions        \* the transports created so far, in order

handlerVars == <<config, hpc, request, validatedArgs, invoked, pending, response, error>>
clientVars  ==
  <<now, accessToken, tokenExpiry, fibers, lastRequest>>
breakerVars == <<state, pendingClose, window, timers, lastExecute>>
pureVars == <<callee, input, output>>
sessionVars == <<transports, sessions>>
vars == <<handlerVars, clientVars, breakerVars, pureVars, sessionVars>>

-----------------------------------------------------------------------------
(* JSON values. Each kind of value has its own field name, so that values  *)
(* of different kinds are comparable.                                      *)

IntV(n)  == [int |-> n]
FracV    == [frac |-> <<3, 2>>]          \* the non-integer number 1.5
StrV(s)  == [str |-> s]
BoolV(b) == [bool |-> b]
DateV(s) == [date |-> s]                 \* a Date object made from an ISO string
ObjV(o)  == [obj |-> o]
NullV    == [null |-> TRUE]
Undefined == [undef |-> TRUE]            \* undefined: an absent field or argument
EmptyObj == [f \in {} |-> Undefined]     \* {}

IsInt(v)  == "int" \in DOMAIN v
IsStr(v)  == "str" \in DOMAIN v
IsObject(a) == a # Undefined /\ a # NullV

Get(a, f) == IF IsObject(a) /\ f \in DOMAIN a THEN a[f] ELSE Undefined

-----------------------------------------------------------------------------
(* Joi schemas of validation.ts. A rule is one Joi type with its flags.    *)

Rule(kind) ==
  [kind |-> kind, required |-> FALSE, hasDefault |-> FALSE, default |-> Undefined,
   integer |-> FALSE, positive |-> FALSE, hasMin |-> FALSE, min |-> 0,
   hasMax |-> FALSE, max |-> 0, allowed |-> {}]

positiveInteger ==
  [Rule("number") EXCEPT !.integer = TRUE, !.positive = TRUE, !.required = TRUE]
optionalInteger ==
  [Rule("number") EXCEPT !.integer = TRUE, !.positive = TRUE]
isoDate == Rule("date")
pageSize ==
  [Rule("number") EXCEPT !.integer = TRUE, !.hasMin = TRUE, !.min = 1,
     !.hasMax = TRUE, !.max = 500, !.hasDefault = TRUE, !.default = IntV(100)]
pageNumber ==
  [Rule("number") EXCEPT !.integer = TRUE, !.hasMin = TRUE, !.min = 1,
     !.hasDefault = TRUE, !.default = IntV(1)]
monthsBackRule(d) ==
  [Rule("number") EXCEPT !.integer = TRUE, !.hasMin = TRUE, !.min = 1,
     !.hasMax = TRUE, !.max = 24, !.hasDefault = TRUE, !.default = IntV(d)]
changeThresholdRule ==
  [Rule("number") EXCEPT !.hasMin = TRUE, !.min = 1, !.hasMax = TRUE, !.max = 100,
     !.hasDefault = TRUE, !.default = IntV(25)]
provisionTypeRule ==
  [Rule("enum") EXCEPT
     !.allowed = {"None", "Seat", "Usage", "OneTime", "Crayon", "AzureMarketplace"}]
yearRule ==
  [Rule("number") EXCEPT !.integer = TRUE, !.hasMin = TRUE, !.min = 2020,
     !.hasMax = TRUE, !.max = 2100, !.required = TRUE]
monthRule ==
  [Rule("number") EXCEPT !.integer = TRUE, !.hasMin = TRUE, !.min = 1,
     !.hasMax = TRUE, !.max = 12, !.required = TRUE]
includeBomRule ==
  [Rule("boolean") EXCEPT !.hasDefault = TRUE, !.default = BoolV(FALSE)]
tagsRule == [Rule("tags") EXCEPT !.required = TRUE]
namePatternRule ==
  [Rule("pattern") EXCEPT !.required = TRUE, !.hasMax = TRUE, !.max = 100]

SchemaNames ==
  {"get_organizations", "get_invoice_profiles", "get_billing_statements",
   "get_grouped_billing_statements", "get_invoices", "get_subscriptions",
   "get_cost_by_subscription", "get_subscription_details", "get_subscription_tags",
   "update_subscription_tags", "track_costs_by_tags", "get_customer_tenants",
   "get_azure_subscriptions", "get_azure_plan_details", "get_azure_plan_subscriptions",
   "get_azure_usage", "get_cost_trends", "detect_cost_anomalies",
   "analyze_costs_by_tags", "find_similar_subscriptions_and_invoices",
   "list_all_subscriptions_with_tags", "get_historical_costs",
   "get_last_month_costs_by_tags"}

schemas(tool) ==
  CASE tool = "get_organizations" -> EmptyObj
    [] tool = "get_invoice_profiles" -> [organizationId |-> positiveInteger]
    [] tool = "get_billing_statements" ->
         [organizationId |-> positiveInteger, invoiceProfileId |-> optionalInteger,
          provisionType |-> provisionTypeRule, from |-> isoDate, to |-> isoDate,
          page |-> pageNumber, pageSize |-> pageSize]
    [] tool = "get_grouped_billing_statements" ->
         [organizationId |-> positiveInteger, invoiceProfileId |-> optionalInteger,
          provisionType |-> provisionTypeRule, from |-> isoDate, to |-> isoDate]
    [] tool = "get_invoices" ->
         [organizationId |-> positiveInteger, page |-> pageNumber, pageSize |-> pageSize]
    [] tool = "get_subscriptions" ->
         [organizationId |-> optionalInteger, page |-> pageNumber, pageSize |-> pageSize]
    [] tool = "get_cost_by_subscription" ->
         [organizationId |-> positiveInteger, invoiceProfileId |-> optionalInteger,
          monthsBack |-> monthsBackRule(3)]
    [] tool = "get_subscription_details" -> [subscriptionId |-> positiveInteger]
    [] tool = "get_subscription_tags" -> [subscriptionId |-> positiveInteger]
    [] tool = "update_subscription_tags" ->
         [subscriptionId |-> positiveInteger, tags |-> tagsRule]
    [] tool = "track_costs_by_tags" ->
         [organizationId |-> positiveInteger, monthsBack |-> monthsBackRule(3)]
    [] tool = "get_customer_tenants" -> [organizationId |-> optionalInteger]
    [] tool = "get_azure_subscriptions" -> [customerTenantId |-> positiveInteger]
    [] tool = "get_azure_plan_details" -> [azurePlanId |-> positiveInteger]
    [] tool = "get_azure_plan_subscriptions" -> [azurePlanId |-> positiveInteger]
    [] tool = "get_azure_usage" ->
         [azurePlanId |-> positiveInteger, subscriptionId |-> positiveInteger,
          year |-> yearRule, month |-> monthRule, includeBom |-> includeBomRule]
    [] tool = "get_cost_trends" ->
         [organizationId |-> positiveInteger, monthsBack |-> monthsBackRule(6)]
    [] tool = "detect_cost_anomalies" ->
         [organizationId |-> positiveInteger, monthsBack |-> monthsBackRule(3),
          changeThresholdPercent |-> changeThresholdRule]
    [] tool = "analyze_costs_by_tags" ->
         [organizationId |-> positiveInteger, monthsBack |-> monthsBackRule(3)]
    [] tool = "find_similar_subscriptions_and_invoices" ->
         [organizationId |-> positiveInteger, namePattern |-> namePatternRule]
    [] tool = "list_all_subscriptions_with_tags" ->
         [organizationId |-> positiveInteger, page |-> pageNumber, pageSize |-> pageSize]
    [] tool = "get_historical_costs" ->
         [organizationId |-> positiveInteger, monthsBack |-> monthsBackRule(6)]
    [] tool = "get_last_month_costs_by_tags" -> [organizationId |-> positiveInteger]

-----------------------------------------------------------------------------
(* validateRegexPattern (validation.ts:13-41). The strings a caller can    *)
(* send are drawn from a few patterns; what the JavaScript regex engine    *)
(* answers for each of them is tabulated.                                  *)

LongPattern ==
  "aaaaaaaaaaaaaaaaaaaaaaaaaaaaaaaaaaaaaaaaaaaaaaaaaaaaaaaaaaaaaaaaaaaaaaaaaaaaaaaaaaaaaaaaaaaaaaaaaaaaaaaaaaaaaaaaaaaaaaaaaaaaaaaaaaaaaaaaaaaaaaaaaaaaaa"

\* dangerousPatterns.some(d => d.test(pattern)) for the sample patterns
MatchesDangerous(pattern) == pattern \in {"(.*)+", "(.*)*", ".*.*"}

\* new RegExp(pattern, 'i') does not throw
Compiles(pattern) == pattern \notin {"(", "[a"}

\* a check of the length and of compilability only
validateRegexPatternWithoutDenylist(pattern) ==
  IF Len(pattern) > 100 THEN [error |-> "Pattern too long (max 100 characters)"]
  ELSE IF Compiles(pattern) THEN [value |-> pattern]
  ELSE [error |-> "Invalid regex pattern"]

validateRegexPattern(pattern) ==
  IF Len(pattern) > 100 THEN [error |-> "Pattern too long (max 100 characters)"]
  ELSE IF MatchesDangerous(pattern)
    THEN [error |-> "Pattern contains potentially dangerous regex constructs (possible ReDoS)"]
  ELSE IF Compiles(pattern) THEN [value |-> pattern]
  ELSE [error |-> "Invalid regex pattern"]

-----------------------------------------------------------------------------
(* Joi's validation of one field and of an object, with the options        *)
(* validateToolInput passes: convert, stripUnknown, abortEarly false.      *)

\* Joi's number coercion of a string (convert: true): the number the string
\* spells, or nothing when it spells none
StringToNumber(s) ==
  CASE s = "4040561" -> IntV(4040561)
    [] s = "12" -> IntV(12)
    [] s = "10" -> IntV(10)
    [] s = "20" -> IntV(20)
    [] OTHER -> Undefined

\* Joi's isIsoDate for the sample strings
IsIsoDate(s) == s \in {"2025-01-01", "2025-02-01"}

ToNumber(v) ==
  IF IsInt(v) \/ "frac" \in DOMAIN v THEN v
  ELSE IF IsStr(v) THEN StringToNumber(v.str)
  ELSE Undefined

NumberInRange(rule, n) ==
  LET num == IF IsInt(n) THEN n.int ELSE n.frac[1]
      den == IF IsInt(n) THEN 1 ELSE n.frac[2]
  IN  /\ rule.integer => IsInt(n)
      /\ rule.positive => num > 0
      /\ rule.hasMin => num >= rule.min * den
      /\ rule.hasMax => num <= rule.max * den

FieldAbsent == [ok |-> TRUE, present |-> FALSE, value |-> Undefined]
FieldError  == [ok |-> FALSE, present |-> FALSE, value |-> Undefined]
FieldOk(v)  == [ok |-> TRUE, present |-> TRUE, value |-> v]

ValidateField(rule, v) ==
  IF v = Undefined
    THEN IF rule.required THEN FieldError
         ELSE IF rule.hasDefault THEN FieldOk(rule.default)
         ELSE FieldAbsent
  ELSE CASE rule.kind = "number" ->
              LET n == ToNumber(v)
              IN  IF n # Undefined /\ NumberInRange(rule, n) THEN FieldOk(n) ELSE FieldError
         [] rule.kind = "enum" ->
              IF IsStr(v) /\ v.str \in rule.allowed THEN FieldOk(v) ELSE FieldError
         [] rule.kind = "date" ->
              IF "date" \in DOMAIN v THEN FieldOk(v)
              ELSE IF IsStr(v) /\ IsIsoDate(v.str) THEN FieldOk(DateV(v.str))
              ELSE FieldError
         [] rule.kind = "boolean" ->
              IF "bool" \in DOMAIN v THEN FieldOk(v)
              ELSE IF IsStr(v) /\ v.str \in {"true", "false"}
                THEN FieldOk(BoolV(v.str = "true"))
              ELSE FieldError
         [] rule.kind = "tags" ->
              IF "obj" \in DOMAIN v /\ \A k \in DOMAIN v.obj : IsStr(v.obj[k])
                THEN FieldOk(v) ELSE FieldError
         [] rule.kind = "pattern" ->
              IF IsStr(v) /\ Len(v.str) > 0 /\ Len(v.str) <= rule.max
                THEN FieldOk(v) ELSE FieldError

\* schema.validateAsync(args, options): rejects, or resolves to the
\* normalized value itself (Joi 16+ resolves to the value, not to a
\* {value, error} pair, unless the warnings/debug/artifacts options are set)
validateAsync(tool, args) ==
  LET schema == schemas(tool) IN
  IF args = Undefined THEN [rejected |-> FALSE, value |-> Undefined]
  ELSE
    LET res == [f \in DOMAIN schema |-> ValidateField(schema[f], Get(args, f))]
        kept == {f \in DOMAIN schema : res[f].present}
        value == [f \in kept |-> res[f].value]
        external == IF "namePattern" \in kept
                      THEN validateRegexPattern(value["namePattern"].str)
                      ELSE [value |-> ""]
    IN  IF \E f \in DOMAIN schema : ~res[f].ok
          THEN [rejected |-> TRUE, value |-> Undefined]
        ELSE IF "error" \in DOMAIN external
          THEN [rejected |-> TRUE, value |-> Undefined]
        ELSE [rejected |-> FALSE, value |-> value]

\* validateToolInput (validation.ts:178-201): throws, or returns the
\* property named "value" of what validateAsync resolved to
\* (const { value, error } = await schema.validateAsync(...); return value)
validateToolInput(toolName, args) ==
  IF toolName \notin SchemaNames
    THEN [threw |-> TRUE, value |-> Undefined,
          message |-> "No validation schema for tool"]
  ELSE
    LET r == validateAsync(toolName, args) IN
    IF r.rejected
      THEN [threw |-> TRUE, value |-> Undefined, message |-> "Invalid input: validation"]
    ELSE IF ~IsObject(r.value)
      THEN [threw |-> TRUE, value |-> Undefined,
            message |-> "Invalid input: Cannot destructure property"]
    ELSE [threw |-> FALSE, value |-> Get(r.value, "value"), message |-> ""]

-----------------------------------------------------------------------------
(* The tool catalog (part_000:66-575, index.ts:64-573) and the dispatch    *)
(* switch (part_000:650-1231).                                             *)

tools ==
  {"get_billing_statements", "get_grouped_billing_statements", "get_azure_usage",
   "get_invoices", "get_invoice_profiles", "get_organizations", "get_historical_costs",
   "get_customer_tenants", "get_azure_subscriptions", "get_subscriptions",
   "get_cost_by_subscription", "get_subscription_details", "get_subscription_tags",
   "update_subscription_tags", "get_azure_plan_details", "get_azure_plan_subscriptions",
   "track_costs_by_tags", "get_azure_costs_by_date_range",
   "get_azure_costs_by_subscription", "get_cost_trends", "detect_cost_anomalies",
   "analyze_costs_by_tags", "find_similar_subscriptions_and_invoices",
   "list_all_subscriptions_with_tags", "get_last_month_costs_by_organization",
   "get_last_month_costs_by_invoice_profile", "get_last_month_costs_by_tags"}

\* the case labels of the switch
SwitchCases == tools \cup {"visualize_costs_pie_chart"}

\* a parameter read from validatedArgs by destructuring, with its default
P(field) == [field |-> field, default |-> Undefined]
PD(field, d) == [field |-> field, default |-> IntV(d)]

\* the switch case of a tool: the client operations it calls (all of them
\* started together when there are two: Promise.all) and whether validatedArgs
\* is passed whole or destructured into parameters
SwitchCase(name) ==
  CASE name = "get_billing_statements" ->
         [whole |-> TRUE, calls |-> <<[op |-> "getBillingStatements", params |-> <<>>]>>]
    [] name = "get_grouped_billing_statements" ->
         [whole |-> TRUE,
          calls |-> <<[op |-> "getGroupedBillingStatements", params |-> <<>>]>>]
    [] name = "get_azure_usage" ->
         [whole |-> TRUE, calls |-> <<[op |-> "getAzureUsage", params |-> <<>>]>>]
    [] name = "get_organizations" ->
         [whole |-> TRUE, calls |-> <<[op |-> "getOrganizations", params |-> <<>>]>>]
    [] name = "get_invoices" ->
         [whole |-> FALSE,
          calls |-> <<[op |-> "getInvoices",
                       params |-> <<P("organizationId"), P("page"), P("pageSize")>>]>>]
    [] name = "get_invoice_profiles" ->
         [whole |-> FALSE,
          calls |-> <<[op |-> "getInvoiceProfiles", params |-> <<P("organizationId")>>]>>]
    [] name = "get_historical_costs" ->
         [whole |-> FALSE,
          calls |-> <<[op |-> "getHistoricalBilling",
                       params |-> <<P("organizationId"), PD("monthsBack", 6),
                                    P("invoiceProfileId")>>]>>]
    [] name = "get_customer_tenants" ->
         [whole |-> FALSE,
          calls |-> <<[op |-> "getCustomerTenants", params |-> <<P("organizationId")>>]>>]
    [] name = "get_azure_subscriptions" ->
         [whole |-> FALSE,
          calls |-> <<[op |-> "getAzureSubscriptions",
                       params |-> <<P("customerTenantId")>>]>>]
    [] name = "get_subscriptions" ->
         [whole |-> FALSE,
          calls |-> <<[op |-> "getSubscriptions",
                       params |-> <<P("organizationId"), P("page"), P("pageSize")>>]>>]
    [] name = "get_cost_by_subscription" ->
         [whole |-> FALSE,
          calls |-> <<[op |-> "getHistoricalBilling",
                       params |-> <<P("organizationId"), PD("monthsBack", 3),
                                    P("invoiceProfileId")>>],
                      [op |-> "getSubscriptions", params |-> <<P("organizationId")>>]>>]
    [] name = "get_subscription_details" ->
         [whole |-> FALSE,
          calls |-> <<[op |-> "getSubscriptionById", params |-> <<P("subscriptionId")>>]>>]
    [] name = "get_subscription_tags" ->
         [whole |-> FALSE,
          calls |-> <<[op |-> "getSubscriptionTags", params |-> <<P("subscriptionId")>>]>>]
    [] name = "update_subscription_tags" ->
         [whole |-> FALSE,
          calls |-> <<[op |-> "updateSubscriptionTags",
                       params |-> <<P("subscriptionId"), P("tags")>>]>>]
    [] name = "get_azure_plan_details" ->
         [whole |-> FALSE,
          calls |-> <<[op |-> "getAzurePlan", params |-> <<P("azurePlanId")>>]>>]
    [] name = "get_azure_plan_subscriptions" ->
         [whole |-> FALSE,
          calls |-> <<[op |-> "getAzurePlanSubscriptions",
                       params |-> <<P("azurePlanId")>>]>>]
    [] name = "track_costs_by_tags" ->
         [whole |-> FALSE,
          calls |-> <<[op |-> "getCostByTags",
                       params |-> <<P("organizationId"), PD("monthsBack", 3)>>]>>]
    [] name = "get_azure_costs_by_date_range" ->
         [whole |-> FALSE,
          calls |-> <<[op |-> "getAzureCostsByDateRange",
                       params |-> <<P("organizationId"), P("from"), P("to")>>]>>]
    [] name = "get_azure_costs_by_subscription" ->
         [whole |-> FALSE,
          calls |-> <<[op |-> "getAzureCostsBySubscription",
                       params |-> <<P("azurePlanId"), P("subscriptionId"),
                                    P("from"), P("to")>>]>>]
    [] name = "get_cost_trends" ->
         [whole |-> FALSE,
          calls |-> <<[op |-> "getCostTrends",
                       params |-> <<P("organizationId"), PD("monthsBack", 6)>>]>>]
    [] name = "detect_cost_anomalies" ->
         [whole |-> FALSE,
          calls |-> <<[op |-> "detectCostAnomalies",
                       params |-> <<P("organizationId"), PD("monthsBack", 3),
                                    PD("changeThresholdPercent", 25)>>]>>]
    [] name = "analyze_costs_by_tags" ->
         [whole |-> FALSE,
          calls |-> <<[op |-> "analyzeCostsByTags",
                       params |-> <<P("organizationId"), PD("monthsBack", 3)>>]>>]
    [] name = "find_similar_subscriptions_and_invoices" ->
         [whole |-> FALSE,
          calls |-> <<[op |-> "findSimilarSubscriptionsAndInvoices",
                       params |-> <<P("organizationId"), P("namePattern")>>]>>]
    [] name = "list_all_subscriptions_with_tags" ->
         [whole |-> FALSE,
          calls |-> <<[op |-> "listAllSubscriptionsWithTags",
                       params |-> <<P("organizationId")>>]>>]
    [] name = "get_last_month_costs_by_organization" ->
         [whole |-> FALSE,
          calls |-> <<[op |-> "getLastMonthCostsByOrganization",
                       params |-> <<P("organizationId")>>]>>]
    [] name = "get_last_month_costs_by_invoice_profile" ->
         [whole |-> FALSE,
          calls |-> <<[op |-> "getLastMonthCostsByInvoiceProfile",
                       params |-> <<P("organizationId")>>]>>]
    [] name = "get_last_month_costs_by_tags" ->
         [whole |-> FALSE,
          calls |-> <<[op |-> "getLastMonthCostsByTags",
                       params |-> <<P("organizationId")>>]>>]
    [] name = "visualize_costs_pie_chart" ->
         [whole |-> FALSE,
          calls |-> <<[op |-> "getHistoricalBilling",
                       params |-> <<P("organizationId"), PD("monthsBack", 3)>>]>>]

\* const { f, g = d } = validatedArgs: the value bound to one parameter
Destructure(va, p) ==
  IF Get(va, p.field) = Undefined THEN p.default ELSE Get(va, p.field)

\* the client invocations a switch case makes for validatedArgs va
ClientCalls(name, va) ==
  LET c == SwitchCase(name) IN
  [i \in 1..Len(c.calls) |->
     [op |-> c.calls[i].op,
      args |-> IF c.whole
                 THEN IF c.calls[i].op = "getOrganizations" THEN <<>> ELSE <<va>>
                 ELSE [j \in 1..Len(c.calls[i].params) |->
                         Destructure(va, c.calls[i].params[j])]]]

-----------------------------------------------------------------------------
(* Caller authentication (auth.ts:21-85), mounted on /mcp in HTTP mode     *)
(* when AUTH_ENABLED (part_000:1349-1352, index.ts:1225-1228).             *)

AllOrgs == {4040561, 4019092}
NoUser == [id |-> "none", organizations |-> {}, roles |-> {}]

\* the Authorization headers a caller sends; AUTH_TOKEN is "secret"
Headers == {"", "Bearer secret", "secret", "Bearer wrong", "Bearer "}

\* authHeader.startsWith('Bearer ') ? authHeader.substring(7) : authHeader
BearerToken(authHeader) ==
  CASE authHeader = "Bearer secret" -> "secret"
    [] authHeader = "Bearer wrong" -> "wrong"
    [] authHeader = "Bearer " -> ""
    [] OTHER -> authHeader

authenticateRequest(authDisabled, authHeader, method, bodyMethod, validToken) ==
  IF authDisabled
    THEN [status |-> "next",
          user |-> [id |-> "dev-user", organizations |-> AllOrgs, roles |-> {"admin"}]]
  ELSE IF authHeader = "" /\ method = "POST" /\ bodyMethod = "initialize"
    THEN [status |-> "next",
          user |-> [id |-> "anonymous", organizations |-> AllOrgs, roles |-> {"viewer"}]]
  ELSE IF authHeader = "" THEN [status |-> "401", user |-> NoUser]
  ELSE IF BearerToken(authHeader) = "" THEN [status |-> "401", user |-> NoUser]
  ELSE IF validToken = "" THEN [status |-> "500", user |-> NoUser]
  ELSE IF BearerToken(authHeader) # validToken THEN [status |-> "401", user |-> NoUser]
  ELSE [status |-> "next",
        user |-> [id |-> "api-user", organizations |-> AllOrgs, roles |-> {"admin"}]]

\* the Principal with which a tools/call request reaches the server's handler
CallerOf(cfg, authHeader) ==
  IF cfg.transportMode = "http" /\ cfg.AUTH_ENABLED
    THEN authenticateRequest(FALSE, authHeader, "POST", "tools/call", "secret")
    ELSE [status |-> "next", user |-> NoUser]

\* parseInt of a string: the integer its leading digits spell, whatever
\* follows them; -1 stands for NaN
ParseLeadingInt(s) ==
  CASE s \in {"4040561", "4040561abc"} -> 4040561
    [] s \in {"10", "10abc"} -> 10
    [] s = "12" -> 12
    [] s = "20" -> 20
    [] OTHER -> -1

\* parseInt(organizationId): a number is converted to its string first, so
\* its fraction is dropped
parseInt(v) ==
  IF IsInt(v) THEN v.int
  ELSE IF "frac" \in DOMAIN v THEN v.frac[1] \div v.frac[2]
  ELSE IF IsStr(v) THEN ParseLeadingInt(v.str)
  ELSE -1

\* authorizeOrganization(requiredRole) (auth.ts:90-127): the status it
\* answers with, or "next". No route mounts it.
authorizeOrganization(user, organizationId, requiredRole) ==
  IF user = NoUser THEN "401"
  ELSE IF organizationId \in {Undefined, NullV, IntV(0), StrV("")} THEN "400"
  ELSE IF parseInt(organizationId) \notin user.organizations THEN "403"
  ELSE IF requiredRole \notin user.roles /\ "admin" \notin user.roles THEN "403"
  ELSE "next"

\* req.body?.organizationId || req.query?.organizationId (auth.ts:98)
OrganizationIdOf(body, query) ==
  IF Get(body, "organizationId") \in {Undefined, NullV, IntV(0), StrV("")}
    THEN Get(query, "organizationId")
    ELSE Get(body, "organizationId")

\* the logger.warn events of authorizeOrganization (auth.ts:107-111, 119-123)
authorizeOrganizationLog(user, organizationId, requiredRole) ==
  IF user = NoUser \/ organizationId \in {Undefined, NullV, IntV(0), StrV("")} THEN <<>>
  ELSE IF parseInt(organizationId) \notin user.organizations
    THEN <<[message |-> "Unauthorized access attempt", userId |-> user.id,
            attemptedOrgId |-> organizationId, allowedOrgs |-> user.organizations]>>
  ELSE IF requiredRole \notin user.roles /\ "admin" \notin user.roles
    THEN <<[message |-> "Insufficient role", userId |-> user.id,
            requiredRole |-> requiredRole, userRoles |-> user.roles]>>
  ELSE <<>>

\* Principals, request bodies, query strings and required roles the
\* middleware meets
Principals ==
  {NoUser,
   [id |-> "api-user", organizations |-> AllOrgs, roles |-> {"admin"}],
   [id |-> "viewer-10", organizations |-> {10}, roles |-> {"viewer"}],
   [id |-> "editor-10", organizations |-> {10, 4040561}, roles |-> {"editor"}],
   [id |-> "nobody-10", organizations |-> {10}, roles |-> {}]}
Bodies ==
  {Undefined, EmptyObj} \cup
  {[organizationId |-> v] :
     v \in {IntV(0), IntV(10), IntV(20), IntV(4040561), StrV("10"), StrV("10abc"),
            StrV("abc"), [frac |-> <<21, 2>>], NullV}}
Queries == {EmptyObj, [organizationId |-> StrV("10")], [organizationId |-> StrV("20")]}
RequiredRoles == {"viewer", "editor", "admin"}

\* the middleware authorizeOrganization(requiredRole) handles one request:
\* the responses it sends, its calls of next() and its log events
Authorize(user, body, query, requiredRole) ==
  LET organizationId == OrganizationIdOf(body, query)
      status == authorizeOrganization(user, organizationId, requiredRole)
  IN  /\ callee' = "authorizeOrganization"
      /\ input' = [user |-> user, body |-> body, query |-> query,
                   requiredRole |-> requiredRole]
      /\ output' = [next |-> IF status = "next" THEN 1 ELSE 0,
                    responses |-> IF status = "next" THEN <<>> ELSE <<status>>,
                    log |-> authorizeOrganizationLog(user, organizationId, requiredRole)]

-----------------------------------------------------------------------------
(* The inputs of a tool call.                                              *)

Org == IntV(4040561)

\* argument objects callers send
SampleArgs ==
  {Undefined,
   EmptyObj,
   [organizationId |-> Org],
   [organizationId |-> IntV(7)],
   [organizationId |-> IntV(0)],
   [organizationId |-> IntV(-1)],
   [organizationId |-> StrV("4040561")],
   [organizationId |-> StrV("abc")],
   [organizationId |-> FracV],
   [organizationId |-> NullV],
   [organizationId |-> Org, extra |-> StrV("x")],
   [organizationId |-> Org, value |-> StrV("x")],
   [organizationId |-> Org, monthsBack |-> IntV(6), changeThresholdPercent |-> IntV(50)],
   [organizationId |-> Org, monthsBack |-> IntV(25)],
   [organizationId |-> Org, changeThresholdPercent |-> FracV],
   [organizationId |-> Org, page |-> IntV(2), pageSize |-> IntV(500)],
   [organizationId |-> Org, pageSize |-> IntV(501)],
   [organizationId |-> Org, pageSize |-> IntV(0)],
   [organizationId |-> Org, from |-> StrV("2025-01-01"), to |-> StrV("2025-02-01"),
    provisionType |-> StrV("Usage")],
   [organizationId |-> Org, from |-> StrV("yesterday")],
   [organizationId |-> Org, namePattern |-> StrV("sub-prod.*")],
   [organizationId |-> Org, namePattern |-> StrV("(.*)+")],
   [organizationId |-> Org, namePattern |-> StrV("(")],
   [organizationId |-> Org, namePattern |-> StrV(LongPattern)],
   [subscriptionId |-> IntV(12)],
   [subscriptionId |-> IntV(12), tags |-> ObjV([env |-> StrV("prod")])],
   [subscriptionId |-> IntV(12), tags |-> ObjV([env |-> IntV(1)])],
   [customerTenantId |-> IntV(3)],
   [azurePlanId |-> IntV(5)],
   [azurePlanId |-> IntV(5), subscriptionId |-> IntV(12), year |-> IntV(2025),
    month |-> IntV(1)],
   [azurePlanId |-> IntV(5), subscriptionId |-> IntV(12), year |-> IntV(2025),
    month |-> IntV(13), includeBom |-> StrV("true")],
   [azurePlanId |-> IntV(5), subscriptionId |-> IntV(12), from |-> StrV("2025-01-01"),
    to |-> StrV("2025-02-01")]}

\* tool names callers send: the catalog, the extra switch case, an unknown one
ToolNames == SwitchCases \cup {"no_such_tool"}

\* error.message of what a client operation throws
ClientErrors ==
  {"Authentication failed: Request failed with status code 401",
   "Request failed with status code 403",
   "Request failed with status code 404",
   "Request failed with status code 500",
   "timeout of 30000ms exceeded",
   "connect ECONNREFUSED",
   "connect ECONNREFUSED 10.0.0.5:4030",
   "Cannot read properties of undefined"}

-----------------------------------------------------------------------------
(* sanitizeErrorMessage (part_001:78-99). message.includes(sub) is         *)
(* tabulated for the messages that occur.                                  *)

Includes(message, sub) ==
  CASE message = "Authentication failed: Request failed with status code 401" ->
         sub \in {"401"}
    [] message = "Request failed with status code 403" -> sub \in {"403"}
    [] message = "Request failed with status code 404" -> sub \in {"404"}
    [] message = "timeout of 30000ms exceeded" -> sub \in {"timeout"}
    [] message = "connect ECONNREFUSED" -> sub \in {"ECONNREFUSED"}
    [] message = "connect ECONNREFUSED 10.0.0.5:4030" -> sub \in {"ECONNREFUSED", "403"}
    [] OTHER -> FALSE

\* sanitizeErrorMessage testing for a refused connection first
sanitizeErrorMessageRefusalFirst(message) ==
  IF Includes(message, "ECONNREFUSED") THEN "Service connection failed"
  ELSE IF Includes(message, "token") THEN "Authentication error"
  ELSE IF Includes(message, "credential") THEN "Authentication failed"
  ELSE IF Includes(message, "401") \/ Includes(message, "Unauthorized")
    THEN "Authentication failed"
  ELSE IF Includes(message, "403") \/ Includes(message, "Forbidden") THEN "Access denied"
  ELSE IF Includes(message, "404") \/ Includes(message, "not found")
    THEN "Resource not found"
  ELSE IF Includes(message, "timeout")
    THEN "Request timeout - service took too long to respond"
  ELSE IF Includes(message, "Circuit") THEN "Service temporarily unavailable"
  ELSE "An error occurred processing your request"

sanitizeErrorMessage(message) ==
  IF Includes(message, "token") THEN "Authentication error"
  ELSE IF Includes(message, "credential") THEN "Authentication failed"
  ELSE IF Includes(message, "401") \/ Includes(message, "Unauthorized")
    THEN "Authentication failed"
  ELSE IF Includes(message, "403") \/ Includes(message, "Forbidden") THEN "Access denied"
  ELSE IF Includes(message, "404") \/ Includes(message, "not found")
    THEN "Resource not found"
  ELSE IF Includes(message, "timeout")
    THEN "Request timeout - service took too long to respond"
  ELSE IF Includes(message, "Circuit") THEN "Service temporarily unavailable"
  ELSE IF Includes(message, "ECONNREFUSED") THEN "Service connection failed"
  ELSE "An error occurred processing your request"

-----------------------------------------------------------------------------
(* The CallToolRequestSchema handler (part_000:597-1280, index.ts:595-1160)*)

NoResponse == [isError |-> FALSE, text |-> "", tool |-> "", requestId |-> FALSE]
NoRequest == [name |-> "", args |-> Undefined, user |-> NoUser]
NoError == ""

\* the outer catch block (part_000:1232-1279)
CatchBlock(name, message) ==
  [isError |-> TRUE, text |-> sanitizeErrorMessage(message), tool |-> name,
   requestId |-> TRUE]

\* what a client operation called with these arguments can settle with:
\* "ok" or the message of the error it throws. An operation handed undefined
\* as its filter or params object reads a property of undefined and throws.
ClientOutcomes(call) ==
  IF call.args = <<Undefined>>
    THEN {"Authentication failed: Request failed with status code 401",
          "Cannot read properties of undefined"}
    ELSE {"ok"} \cup (ClientErrors \ {"Cannot read properties of undefined"})

HandlerInit ==
  /\ config \in [entry : {"part_000", "index"}, transportMode : {"stdio", "http"},
                 AUTH_ENABLED : BOOLEAN]
  /\ hpc = "idle"
  /\ request = NoRequest
  /\ validatedArgs = Undefined
  /\ invoked = <<>>
  /\ pending = 0
  /\ response = NoResponse
  /\ error = NoError

\* a tools/call request passes the middleware and enters the handler
\* (part_000:597-606); let validatedArgs = args
ReceiveCall(name, args, authHeader) ==
  /\ hpc = "idle"
  /\ CallerOf(config, authHeader).status = "next"
  /\ request' = [name |-> name, args |-> args, user |-> CallerOf(config, authHeader).user]
  /\ validatedArgs' = args
  /\ invoked' = <<>>
  /\ pending' = 0
  /\ response' = NoResponse
  /\ error' = NoError
  /\ hpc' = "validate"
  /\ UNCHANGED config

\* Validate with the catch block falling through to the switch
ValidateFallingThrough ==
  /\ hpc = "validate"
  /\ config.entry = "part_000"
  /\ LET r == validateToolInput(request.name, request.args) IN
     /\ validatedArgs' = IF r.threw THEN validatedArgs ELSE r.value
     /\ hpc' = "dispatch"
     /\ UNCHANGED response
  /\ UNCHANGED <<config, request, invoked, pending, error>>

\* part_000:607-641: validatedArgs = await validateToolInput(name, args),
\* a throw is answered with the validation message
Validate ==
  /\ hpc = "validate"
  /\ config.entry = "part_000"
  /\ LET r == validateToolInput(request.name, request.args) IN
     IF r.threw
       THEN /\ response' = [isError |-> TRUE, text |-> r.message, tool |-> "",
                            requestId |-> FALSE]
            /\ hpc' = "returned"
            /\ UNCHANGED validatedArgs
       ELSE /\ validatedArgs' = r.value
            /\ hpc' = "dispatch"
            /\ UNCHANGED response
  /\ UNCHANGED <<config, request, invoked, pending, error>>

\* index.ts:604-633: validateToolInput is not awaited, so validationError is
\* a Promise, which is truthy: the handler answers 'Validation failed'
ValidateIndex ==
  /\ hpc = "validate"
  /\ config.entry = "index"
  /\ response' = [isError |-> TRUE, text |-> "Validation failed", tool |-> "",
                  requestId |-> FALSE]
  /\ hpc' = "returned"
  /\ UNCHANGED <<config, request, validatedArgs, invoked, pending, error>>

\* part_000:650-1231: the switch on the tool name. An unknown name throws,
\* destructuring an undefined validatedArgs throws, otherwise the case's
\* client operations are called directly on crayonClient
Dispatch ==
  /\ hpc = "dispatch"
  /\ IF request.name \notin SwitchCases
       THEN /\ error' = "Unknown tool"
            /\ response' = CatchBlock(request.name, "Unknown tool")
            /\ hpc' = "returned"
            /\ UNCHANGED <<invoked, pending>>
     ELSE IF ~SwitchCase(request.name).whole /\ ~IsObject(validatedArgs)
       THEN /\ error' = "Cannot destructure property"
            /\ response' = CatchBlock(request.name, "Cannot destructure property")
            /\ hpc' = "returned"
            /\ UNCHANGED <<invoked, pending>>
     ELSE /\ invoked' = ClientCalls(request.name, validatedArgs)
          /\ pending' = Len(ClientCalls(request.name, validatedArgs))
          /\ hpc' = "client"
          /\ UNCHANGED <<response, error>>
  /\ UNCHANGED <<config, request, validatedArgs>>

\* an awaited client operation settles: the last success ends the case with
\* a result payload, a throw goes to the catch block
ClientSettles ==
  /\ hpc = "client"
  /\ \E outcome \in ClientOutcomes(invoked[pending]) :
       IF outcome = "ok"
         THEN /\ pending' = pending - 1
              /\ IF pending = 1
                   THEN /\ response' = [isError |-> FALSE, text |-> "result",
                                        tool |-> "", requestId |-> FALSE]
                        /\ hpc' = "returned"
                   ELSE UNCHANGED <<response, hpc>>
              /\ UNCHANGED error
         ELSE /\ error' = outcome
              /\ response' = CatchBlock(request.name, outcome)
              /\ hpc' = "returned"
              /\ UNCHANGED pending
  /\ UNCHANGED <<config, request, validatedArgs, invoked>>

\* the payload goes back to the caller; the handler is ready for the next call
Return ==
  /\ hpc = "returned"
  /\ hpc' = "idle"
  /\ request' = NoRequest
  /\ validatedArgs' = Undefined
  /\ invoked' = <<>>
  /\ pending' = 0
  /\ response' = NoResponse
  /\ error' = NoError
  /\ UNCHANGED config

-----------------------------------------------------------------------------
(* CrayonApiClient (crayon-client.ts). Every async method call is a fiber  *)
(* that runs without interruption until it awaits the network. A called    *)
(* method that is awaited in sequence runs in the caller's fiber; the      *)
(* calls started together under Promise.all run in fibers of their own.    *)

MaxOps == 2          \* client operations running at one time
MaxFibers == 4       \* async method calls in flight at one time
MaxItems == 1        \* subscriptions a subscriptions response lists
MaxNow == 90         \* the clock stops advancing here
TickSteps == {30}    \* seconds by which the clock advances in one step
RefreshMargin == 60      \* crayon-client.ts:55
DefaultExpiresIn == 3600 \* crayon-client.ts:80

\* expires_in values the token endpoint answers with (0: the field is missing)
ExpiresInValues == {0, 90}

Auth == [ins |-> "auth", catch404 |-> FALSE, kids |-> <<>>]
HttpGet == [ins |-> "get", catch404 |-> FALSE, kids |-> <<>>]
HttpGetCatch404 == [ins |-> "get", catch404 |-> TRUE, kids |-> <<>>]
PromiseAll(programs) == [ins |-> "fork", catch404 |-> FALSE, kids |-> programs]
TagFanOut == [ins |-> "forkTags", catch404 |-> FALSE, kids |-> <<>>]

\* getBillingStatements (94-114), and every method of the same shape
getBillingStatements == <<Auth, HttpGet>>
\* getSubscriptions (286-301)
getSubscriptions == <<Auth, HttpGet>>
\* getSubscriptionTags (377-387)
getSubscriptionTags == <<Auth, HttpGet>>
\* getGroupedBillingStatements (119-137)
getGroupedBillingStatements == <<Auth, HttpGet>>
\* getHistoricalBilling (306-327): authenticates, then calls
\* getGroupedBillingStatements
getHistoricalBilling == <<Auth>> \o getGroupedBillingStatements
\* getAzureSubscriptions (236-281): one token for the plan lookup and the
\* subscriptions lookup, both inside the try block that catches a 404
getAzureSubscriptions == <<Auth, HttpGetCatch404, HttpGetCatch404>>
\* getCostByTags (411-438)
getCostByTags ==
  <<Auth, PromiseAll(<<getSubscriptions, getHistoricalBilling>>), TagFanOut>>

Operations ==
  [getBillingStatements |-> getBillingStatements,
   getAzureSubscriptions |-> getAzureSubscriptions,
   getCostByTags |-> getCostByTags]

\* an access token, told apart by the expiry the endpoint gave it; NoToken
\* is the null of the cache and of a variable not yet assigned
Token(expiry) == [exp |-> expiry]
NoToken == [exp |-> -1]

NoRequestSent == [kind |-> "none", token |-> NoToken, expiresIn |-> 0]

ClientInit ==
  /\ now = 0
  /\ accessToken = NoToken
  /\ tokenExpiry = 0
  /\ fibers = [f \in {} |-> 0]
  /\ lastRequest = NoRequestSent

\* the fibers an operation has in flight at most: itself and the calls
\* under its widest Promise.all
FibersNeeded(op) == IF op = "getCostByTags" THEN 1 + (IF MaxItems > 2 THEN MaxItems ELSE 2) ELSE 1

Fiber(program, parent, swallow, need) ==
  [st |-> "ready", prog |-> program, token |-> NoToken, now0 |-> 0, parent |-> parent,
   waiting |-> 0, swallow |-> swallow, need |-> need]

RECURSIVE SumNeed(_)
SumNeed(S) ==
  IF S = {} THEN 0
  ELSE LET f == CHOOSE x \in S : TRUE IN fibers[f].need + SumNeed(S \ {f})

\* fiber slots spoken for by the operations in flight
Reserved == SumNeed({f \in DOMAIN fibers : fibers[f].parent = 0})

Ready == {f \in DOMAIN fibers : fibers[f].st = "ready"}
FreeIds == (1..MaxFibers) \ DOMAIN fibers

\* the k smallest free fiber ids, in order
RECURSIVE Smallest(_, _)
Smallest(S, k) ==
  IF k = 0 \/ S = {} THEN <<>>
  ELSE LET m == CHOOSE x \in S : \A y \in S : x <= y
       IN  <<m>> \o Smallest(S \ {m}, k - 1)

\* fs with fiber f removed; its children carry on without a parent
Remove(fs, f) ==
  [g \in DOMAIN fs \ {f} |->
     IF fs[g].parent = f THEN [fs[g] EXCEPT !.parent = 0, !.need = 1] ELSE fs[g]]

\* fiber f returns: it leaves, and a parent joined on it is resumed once
\* its last child has returned
Returned(fs, f) ==
  LET p == fs[f].parent IN
  IF p = 0 THEN Remove(fs, f)
  ELSE LET left == fs[p].waiting - 1
       IN  Remove([fs EXCEPT ![p].waiting = left,
                             ![p].st = IF left = 0 THEN "ready" ELSE fs[p].st], f)

\* fiber f throws: a catch-all around it (the tag fetch) turns the throw
\* into a return; otherwise Promise.all in the parent rejects at once, the
\* parent throws in turn and the siblings run on unobserved
Thrown(fs, f) ==
  LET p == fs[f].parent IN
  IF fs[f].swallow THEN Returned(fs, f)
  ELSE IF p = 0 THEN Remove(fs, f)
  ELSE Remove(Remove(fs, f), p)

\* authenticate (51-57): the cached token is returned when it has more than
\* RefreshMargin seconds left
CacheValid == accessToken # NoToken /\ tokenExpiry > now + RefreshMargin

\* a caller (a tool call) starts a client operation
StartOp(op) ==
  /\ Ready = {}
  /\ Cardinality({f \in DOMAIN fibers : fibers[f].parent = 0}) < MaxOps
  /\ Reserved + FibersNeeded(op) <= MaxFibers
  /\ LET f == Smallest(FreeIds, 1)[1]
     IN  fibers' = [g \in DOMAIN fibers \cup {f} |->
                      IF g = f THEN Fiber(Operations[op], 0, FALSE, FibersNeeded(op))
                      ELSE fibers[g]]
  /\ lastRequest' = NoRequestSent
  /\ UNCHANGED <<now, accessToken, tokenExpiry>>

\* a runnable fiber executes its next instruction
Step(f) ==
  /\ f \in Ready
  /\ \A g \in Ready : f <= g
  /\ LET fb == fibers[f] IN
     IF fb.prog = <<>>
       THEN \* the method returns
            /\ fibers' = Returned(fibers, f)
            /\ lastRequest' = NoRequestSent
     ELSE IF Head(fb.prog).ins = "auth"
       THEN IF CacheValid
              THEN \* authenticate returns the cached token (55-57)
                   /\ fibers' = [fibers EXCEPT ![f].token = accessToken,
                                               ![f].prog = Tail(fb.prog)]
                   /\ lastRequest' = NoRequestSent
              ELSE \* authenticate posts to /connect/token (63-76)
                   /\ fibers' = [fibers EXCEPT ![f].st = "awaitToken", ![f].now0 = now,
                                               ![f].token = NoToken]
                   /\ lastRequest' = [kind |-> "token", token |-> NoToken, expiresIn |-> 0]
     ELSE IF Head(fb.prog).ins = "get"
       THEN \* a request with Authorization: Bearer <token>
            /\ fibers' = [fibers EXCEPT ![f].st = "awaitData"]
            /\ lastRequest' = [kind |-> "data", token |-> fb.token, expiresIn |-> 0]
     ELSE \* Promise.all over the listed calls, or over one tag fetch for each
          \* of the subscriptions of the response
          \E n \in 0..MaxItems :
            LET programs == IF Head(fb.prog).ins = "fork" THEN Head(fb.prog).kids
                            ELSE [i \in 1..n |-> getSubscriptionTags]
                kidIds == Smallest(FreeIds, Len(programs))
                swallow == Head(fb.prog).ins = "forkTags"
            IN  /\ Head(fb.prog).ins = "fork" => n = 0
                /\ Len(kidIds) = Len(programs)
                /\ fibers' =
                     [g \in DOMAIN fibers \cup {kidIds[i] : i \in 1..Len(kidIds)} |->
                        IF g = f
                          THEN [fb EXCEPT !.prog = Tail(fb.prog),
                                          !.waiting = Len(programs),
                                          !.st = IF Len(programs) = 0
                                                   THEN "ready" ELSE "join"]
                        ELSE IF g \in DOMAIN fibers THEN fibers[g]
                        ELSE Fiber(programs[CHOOSE i \in 1..Len(kidIds) : kidIds[i] = g],
                                   f, swallow, 0)]
                /\ lastRequest' = NoRequestSent
  /\ UNCHANGED <<now, accessToken, tokenExpiry>>

\* TokenResponse with the expiry counted from the arrival of the answer
TokenResponseFromArrival(f, expiresIn) ==
  /\ Ready = {}
  /\ f \in DOMAIN fibers
  /\ fibers[f].st = "awaitToken"
  /\ LET expiry == now + (IF expiresIn # 0 THEN expiresIn ELSE DefaultExpiresIn)
         token == Token(expiry)
     IN  /\ accessToken' = token
         /\ tokenExpiry' = expiry
         /\ fibers' = [fibers EXCEPT ![f].st = "ready", ![f].token = token,
                                     ![f].now0 = 0,
                                     ![f].prog = Tail(fibers[f].prog)]
  /\ lastRequest' = [kind |-> "tokenResponse", token |-> accessToken',
                     expiresIn |-> expiresIn]
  /\ UNCHANGED <<now>>

\* the token endpoint answers (78-85): the cache is overwritten with the new
\* token and with the expiry counted from the time authenticate was entered
TokenResponse(f, expiresIn) ==
  /\ Ready = {}
  /\ f \in DOMAIN fibers
  /\ fibers[f].st = "awaitToken"
  /\ LET expiry == fibers[f].now0 +
                     (IF expiresIn # 0 THEN expiresIn ELSE DefaultExpiresIn)
         token == Token(expiry)
     IN  /\ accessToken' = token
         /\ tokenExpiry' = expiry
         /\ fibers' = [fibers EXCEPT ![f].st = "ready", ![f].token = token,
                                     ![f].now0 = 0,
                                     ![f].prog = Tail(fibers[f].prog)]
  /\ lastRequest' = [kind |-> "tokenResponse", token |-> accessToken',
                     expiresIn |-> expiresIn]
  /\ UNCHANGED <<now>>

\* TokenFailure with the cache cleared on the way out
TokenFailureClearingCache(f) ==
  /\ Ready = {}
  /\ f \in DOMAIN fibers
  /\ fibers[f].st = "awaitToken"
  /\ fibers' = Thrown(fibers, f)
  /\ lastRequest' = [kind |-> "tokenFailure", token |-> NoToken, expiresIn |-> 0]
  /\ accessToken' = NoToken
  /\ tokenExpiry' = 0
  /\ UNCHANGED <<now>>

\* the token request fails (86-88): authenticate throws 'Authentication
\* failed: ...', and so does the method that awaited it
TokenFailure(f) ==
  /\ Ready = {}
  /\ f \in DOMAIN fibers
  /\ fibers[f].st = "awaitToken"
  /\ fibers' = Thrown(fibers, f)
  /\ lastRequest' = [kind |-> "tokenFailure", token |-> NoToken, expiresIn |-> 0]
  /\ UNCHANGED <<now, accessToken, tokenExpiry>>

\* upstream answers a data request: 200 resumes the method, a 404 inside
\* getAzureSubscriptions' try block returns the empty result, every other
\* error status is thrown
DataResponse(f, status) ==
  /\ Ready = {}
  /\ f \in DOMAIN fibers
  /\ fibers[f].st = "awaitData"
  /\ fibers' =
       IF status = 200
         THEN [fibers EXCEPT ![f].st = "ready", ![f].prog = Tail(fibers[f].prog)]
       ELSE IF status = 404 /\ Head(fibers[f].prog).catch404
         THEN Returned(fibers, f)
       ELSE Thrown(fibers, f)
  /\ lastRequest' = NoRequestSent
  /\ UNCHANGED <<now, accessToken, tokenExpiry>>

\* time passes while every fiber waits for the network
Tick(d) ==
  /\ Ready = {}
  /\ now + d <= MaxNow
  /\ now' = now + d
  /\ lastRequest' = NoRequestSent
  /\ UNCHANGED <<accessToken, tokenExpiry, fibers>>

-----------------------------------------------------------------------------
(* createCircuitBreakerWrapper (part_001:8-73): an opossum CircuitBreaker  *)
(* built with the options of part_001:12-18, and execute() around its      *)
(* fire(). The breaker's transitions are those of opossum's fire, fail,    *)
(* open, close and its reset timer. Every call that passes the breaker     *)
(* arms a timeout timer, opening arms the reset timer; both last 30000 ms  *)
(* (part_001:12,14), so timers expire in the order they were armed.        *)

volumeThreshold == 10            \* part_001:18
errorThresholdPercentage == 50   \* part_001:13

MaxInflight == 2     \* apiCalls running at one time
MaxFires == 11       \* fires the rolling window counts at most

\* fallback arguments callers pass to execute(); Undefined: none passed
Fallbacks == {Undefined, IntV(0), StrV(""), StrV("cached")}

\* JavaScript truthiness, as if (fallback) tests it (part_001:52)
Truthy(v) == v \notin {Undefined, NullV, IntV(0), StrV(""), BoolV(FALSE)}

\* a timer entry: the timeout of a running call, or the reset timer
Call(fallback, probe) == [kind |-> "call", fallback |-> fallback, probe |-> probe]
ResetTimer == [kind |-> "reset", fallback |-> Undefined, probe |-> FALSE]

\* q without its i-th entry (clearTimeout, or the timer having fired)
Without(q, i) == [k \in 1..(Len(q) - 1) |-> IF k < i THEN q[k] ELSE q[k + 1]]

\* the calls whose apiCall is running
InFlight(q) == {i \in 1..Len(q) : q[i].kind = "call"}
Probes(q) == {i \in 1..Len(q) : q[i].kind = "call" /\ q[i].probe}

NoExecute ==
  [event |-> "none", cause |-> "none", fallback |-> Undefined, before |-> "closed",
   invoked |-> FALSE, probe |-> FALSE, outcome |-> "none"]

BreakerInit ==
  /\ state = "closed"
  /\ pendingClose = FALSE
  /\ window = [fires |-> 0, failures |-> 0]
  /\ timers = <<>>
  /\ lastExecute = NoExecute

\* the breaker as one value, for its transition functions
Breaker == [state |-> state, pendingClose |-> pendingClose, window |-> window,
            timers |-> timers]

\* opossum open(): arms the reset timer
open(b) ==
  IF b.state # "open"
    THEN [b EXCEPT !.state = "open", !.pendingClose = FALSE,
                   !.timers = Append(@, ResetTimer)]
    ELSE b

\* opossum close(): clears the reset timer
close(b) ==
  IF b.state # "closed"
    THEN [b EXCEPT !.state = "closed", !.pendingClose = FALSE,
                   !.timers = SelectSeq(@, LAMBDA e : e.kind # "reset")]
    ELSE b

\* fail() without the volumeThreshold test
failBelowVolume(b) ==
  LET c == [b EXCEPT !.window.failures = @ + 1] IN
  IF \/ c.window.failures * 100 > errorThresholdPercentage * c.window.fires
     \/ c.state = "halfOpen"
    THEN open(c)
  ELSE c

\* opossum fail(): the failure is counted; below volumeThreshold fires the
\* breaker stays as it is unless half-open; otherwise it opens when the
\* error rate is over errorThresholdPercentage, or when half-open
fail(b) ==
  LET c == [b EXCEPT !.window.failures = @ + 1] IN
  IF c.window.fires < volumeThreshold /\ c.state # "halfOpen" THEN c
  ELSE IF \/ c.window.failures * 100 > errorThresholdPercentage * c.window.fires
          \/ c.state = "halfOpen"
    THEN open(c)
  ELSE c

\* the 'success' listener: a success while half-open closes the breaker
success(b) == IF b.state = "halfOpen" THEN close(b) ELSE b

\* execute's catch block (part_001:46-57): the fallback is returned when it
\* is truthy, otherwise the error is rethrown
Catch(fallback) == IF Truthy(fallback) THEN "fallback" ELSE "threw"

SetBreaker(b) ==
  /\ state' = b.state
  /\ pendingClose' = b.pendingClose
  /\ window' = b.window
  /\ timers' = b.timers

\* Execute with a probe slot that is never taken
ExecuteKeepingProbeSlot(fallback) ==
  /\ window.fires < MaxFires
  /\ window.failures + Cardinality(InFlight(timers)) < MaxFires
  /\ IF state # "closed" /\ ~pendingClose
       THEN /\ window' = [window EXCEPT !.fires = @ + 1]
            /\ lastExecute' = [event |-> "rejected", cause |-> "open",
                               fallback |-> fallback, before |-> state,
                               invoked |-> FALSE, probe |-> FALSE,
                               outcome |-> Catch(fallback)]
            /\ UNCHANGED <<state, pendingClose, timers>>
       ELSE /\ Cardinality(InFlight(timers)) < MaxInflight
            /\ window' = [window EXCEPT !.fires = @ + 1]
            /\ timers' = Append(timers, Call(fallback, state = "halfOpen"))
            /\ lastExecute' = [event |-> "entered", cause |-> "none",
                               fallback |-> fallback, before |-> state,
                               invoked |-> TRUE, probe |-> state = "halfOpen",
                               outcome |-> "pending"]
            /\ UNCHANGED <<state, pendingClose>>

\* execute(apiCall, fallback) (part_001:43-45) up to its await: fire() counts
\* the call; when the breaker is not closed and no probe slot is free it
\* rejects without calling the action, otherwise it takes the probe slot,
\* arms the timeout and calls apiCall
Execute(fallback) ==
  /\ window.fires < MaxFires
  /\ window.failures + Cardinality(InFlight(timers)) < MaxFires
  /\ IF state # "closed" /\ ~pendingClose
       THEN /\ window' = [window EXCEPT !.fires = @ + 1]
            /\ lastExecute' = [event |-> "rejected", cause |-> "open",
                               fallback |-> fallback, before |-> state,
                               invoked |-> FALSE, probe |-> FALSE,
                               outcome |-> Catch(fallback)]
            /\ UNCHANGED <<state, pendingClose, timers>>
       ELSE /\ Cardinality(InFlight(timers)) < MaxInflight
            /\ window' = [window EXCEPT !.fires = @ + 1]
            /\ pendingClose' = FALSE
            /\ timers' = Append(timers, Call(fallback, state = "halfOpen"))
            /\ lastExecute' = [event |-> "entered", cause |-> "none",
                               fallback |-> fallback, before |-> state,
                               invoked |-> TRUE, probe |-> state = "halfOpen",
                               outcome |-> "pending"]
            /\ UNCHANGED state

\* apiCall resolves before its timeout: the timeout is cleared, 'success' is
\* emitted and execute returns the result
CallSucceeds(i) ==
  /\ i \in InFlight(timers)
  /\ SetBreaker(success([Breaker EXCEPT !.timers = Without(timers, i)]))
  /\ lastExecute' = [event |-> "settled", cause |-> "success",
                     fallback |-> timers[i].fallback, before |-> state,
                     invoked |-> TRUE, probe |-> timers[i].probe,
                     outcome |-> "result"]

\* apiCall rejects before its timeout: handleError clears the timeout and
\* calls fail(); fire() rejects and execute's catch block runs
CallFails(i) ==
  /\ i \in InFlight(timers)
  /\ SetBreaker(fail([Breaker EXCEPT !.timers = Without(timers, i)]))
  /\ lastExecute' = [event |-> "settled", cause |-> "error",
                     fallback |-> timers[i].fallback, before |-> state,
                     invoked |-> TRUE, probe |-> timers[i].probe,
                     outcome |-> Catch(timers[i].fallback)]

\* the oldest timer expires: a call's timeout fails the call as an error
\* does; the reset timer makes the breaker half-open with a free probe slot
TimerFires ==
  /\ timers # <<>>
  /\ IF Head(timers).kind = "call"
       THEN /\ SetBreaker(fail([Breaker EXCEPT !.timers = Tail(timers)]))
            /\ lastExecute' = [event |-> "settled", cause |-> "timeout",
                               fallback |-> Head(timers).fallback, before |-> state,
                               invoked |-> TRUE, probe |-> Head(timers).probe,
                               outcome |-> Catch(Head(timers).fallback)]
       ELSE /\ state' = "halfOpen"
            /\ pendingClose' = TRUE
            /\ timers' = Tail(timers)
            /\ lastExecute' = NoExecute
            /\ UNCHANGED window

\* the rolling window moves on (rollingCountTimeout / rollingCountBuckets,
\* part_001:16-17): the oldest bucket leaves the window and takes the fires
\* and failures counted in it along
Rotate(fires, failures) ==
  /\ fires <= window.fires
  /\ failures <= window.failures
  /\ fires + failures > 0
  /\ window' = [fires |-> window.fires - fires, failures |-> window.failures - failures]
  /\ lastExecute' = NoExecute
  /\ UNCHANGED <<state, pendingClose, timers>>

-----------------------------------------------------------------------------
(* Tag-based cost allocation: getCostByTags (crayon-client.ts:411-438),     *)
(* analyzeCostsByTags (653-707), listAllSubscriptionsWithTags (757-795) and *)
(* getLastMonthCostsByTags (903-997). An operation is applied to what the   *)
(* upstream answers: the subscriptions, each subscription's tag fetch and   *)
(* the billing line items. Costs are JavaScript numbers: an addition rounds *)
(* its result to the significand, which is Precision bits wide here.        *)

MaxSubs == 3          \* subscriptions of the organization
MaxBillingItems == 3  \* line items of the billing data
Precision == 3        \* bits of the significand of a number

TagOps == {"getCostByTags", "analyzeCostsByTags", "listAllSubscriptionsWithTags",
           "getLastMonthCostsByTags"}
AggregatingOps == {"analyzeCostsByTags", "getLastMonthCostsByTags"}

RECURSIVE Ulp(_, _)
\* the spacing of the numbers around n: the least u, u a power of two times
\* the start, with n < 2^Precision * u
Ulp(n, u) == IF n < (2 ^ Precision) * u THEN u ELSE Ulp(n, 2 * u)

\* the number nearest to n, a tie going to the even significand
Round(n) ==
  LET u == Ulp(n, 1)
      q == n \div u
      r == n % u
  IN  IF 2 * r < u THEN q * u
      ELSE IF 2 * r > u THEN (q + 1) * u
      ELSE IF q % 2 = 0 THEN q * u
      ELSE (q + 1) * u

\* a + b on numbers
Plus(a, b) == Round(a + b)

\* an object of tags, as Object.entries lists it
TagsV(entries) == [entries |-> entries]

\* the tags subscription i has upstream
TagsOfSub(i) ==
  CASE i = 1 -> TagsV(<< <<"env", StrV("prod")>> >>)
    [] i = 2 -> TagsV(<< <<"env", StrV("dev")>>, <<"team", StrV("a")>> >>)
    [] i = 3 -> TagsV(<< <<"env", StrV("test")>>, <<"team", StrV("a")>> >>)
    [] OTHER -> TagsV(<< <<"team", StrV("b")>>, <<"env", StrV("prod")>>,
                         <<"owner", StrV("ops")>> >>)

\* String(tagValue)
String(v) == IF IsStr(v) THEN v.str ELSE "[object Object]"

\* await this.getSubscriptionTags(sub.Id) (377-387): it throws, or returns the body of
\* the response, which is empty or the subscription's tags
awaitSubscriptionTags(subId, answer) ==
  CASE answer = "throws" -> [threw |-> TRUE, data |-> Undefined]
    [] answer = "empty" -> [threw |-> FALSE, data |-> Undefined]
    [] OTHER -> [threw |-> FALSE, data |-> TagsOfSub(subId)]

\* tags || {}
OrEmptyTags(tags) == IF tags \in {Undefined, NullV} THEN TagsV(<<>>) ELSE tags

\* the Promise.all over the subscriptions, each branch with its own
\* try/catch (420-430, 660-670, 764-787, 910-919)
subscriptionsWithTags(op, Items, answers) ==
  [i \in 1..Len(Items) |->
     LET fetched == awaitSubscriptionTags(Items[i], answers[i]) IN
     [Id |-> Items[i],
      tags |-> IF op = "getCostByTags"
                 THEN (IF fetched.threw THEN NullV ELSE fetched.data)
                 ELSE (IF fetched.threw THEN TagsV(<<>>) ELSE OrEmptyTags(fetched.data)),
      tagsError |-> op = "listAllSubscriptionsWithTags" /\ fetched.threw]]

\* subIdToTags.get(subId): new Map keeps the last entry of an id
subIdToTags(subs, subId) ==
  LET hits == {i \in 1..Len(subs) : subs[i].Id = subId} IN
  IF hits = {} THEN Undefined
  ELSE subs[CHOOSE i \in hits : \A j \in hits : j <= i].tags

\* costsByTag[tagKey][tagVal] = (costsByTag[tagKey][tagVal] || 0) + cost,
\* on the values of one key, kept in the order they were first written
AddToValue(values, tagVal, cost) ==
  IF \E i \in 1..Len(values) : values[i].value = tagVal
    THEN LET at == CHOOSE i \in 1..Len(values) : values[i].value = tagVal
         IN  [values EXCEPT ![at].cost = Plus(@, cost)]
    ELSE Append(values, [value |-> tagVal, cost |-> Plus(0, cost)])

\* if (!costsByTag[tagKey]) costsByTag[tagKey] = {}, then the addition
AddToTag(costsByTag, tagKey, tagVal, cost) ==
  IF \E i \in 1..Len(costsByTag) : costsByTag[i].tag = tagKey
    THEN LET at == CHOOSE i \in 1..Len(costsByTag) : costsByTag[i].tag = tagKey
         IN  [costsByTag EXCEPT ![at].values = AddToValue(@, tagVal, cost)]
    ELSE Append(costsByTag, [tag |-> tagKey, values |-> AddToValue(<<>>, tagVal, cost)])

\* ForEachTag stopping after the first tag of the subscription
ForEachTagFirstOnly(costsByTag, entries, cost) ==
  IF entries = <<>> THEN costsByTag
  ELSE AddToTag(costsByTag, Head(entries)[1], String(Head(entries)[2]), cost)

RECURSIVE ForEachTag(_, _, _)
\* Object.entries(tags).forEach (683-687, 950-961)
ForEachTag(costsByTag, entries, cost) ==
  IF entries = <<>> THEN costsByTag
  ELSE ForEachTag(AddToTag(costsByTag, Head(entries)[1], String(Head(entries)[2]), cost),
                  Tail(entries), cost)

RECURSIVE ForEachItem(_, _, _)
\* billingData.Items.forEach (677-689, 943-963); TotalSalesPrice || 0 is the
\* price, a missing one being 0
ForEachItem(costsByTag, subs, billingItems) ==
  IF billingItems = <<>> THEN costsByTag
  ELSE LET item == Head(billingItems)
           tags == OrEmptyTags(subIdToTags(subs, item.SubscriptionId))
       IN  ForEachItem(ForEachTag(costsByTag, tags.entries, item.TotalSalesPrice),
                       subs, Tail(billingItems))

RECURSIVE Reduce(_, _)
\* reduce((sum, cost) => sum + cost, 0) over a list of numbers
Reduce(sum, costs) ==
  IF costs = <<>> THEN sum ELSE Reduce(Plus(sum, Head(costs)), Tail(costs))

\* list.sort((a, b) => keys(b) - keys(a)): by falling key, equal keys
\* keeping their order. An element comes after the elements of a greater
\* key and after the earlier elements of the same key.
SortDescending(list, keys) ==
  LET n == Len(list)
      key == SubSeq(keys, 1, n)
      place == SubSeq([i \in 1..n |->
                         1 + Cardinality({j \in 1..n : key[j] > key[i]})
                           + Cardinality({j \in 1..(i - 1) : key[j] = key[i]})], 1, n)
  IN  SubSeq([p \in 1..n |-> list[CHOOSE i \in 1..n : place[i] = p]], 1, n)

RECURSIVE CostsOf(_)
CostsOf(values) ==
  IF values = <<>> THEN <<>> ELSE <<Head(values).cost>> \o CostsOf(Tail(values))

RECURSIVE TotalsOf(_)
TotalsOf(perTag) ==
  IF perTag = <<>> THEN <<>> ELSE <<Head(perTag).total>> \o TotalsOf(Tail(perTag))

\* the formatting of the result: analyzeCostsByTags (693-700) sums a tag's
\* values in the order of the object, getLastMonthCostsByTags (965-983)
\* sums the sorted breakdown and sorts the tags by total
FormatTag(op, entry) ==
  LET breakdown == SortDescending(entry.values, CostsOf(entry.values))
  IN  [tag |-> entry.tag,
       breakdown |-> breakdown,
       total |-> IF op = "analyzeCostsByTags"
                   THEN Reduce(0, CostsOf(entry.values))
                   ELSE Reduce(0, CostsOf(breakdown))]

RECURSIVE FormatTags(_, _)
FormatTags(op, costsByTag) ==
  IF costsByTag = <<>> THEN <<>>
  ELSE <<FormatTag(op, Head(costsByTag))>> \o FormatTags(op, Tail(costsByTag))

costBreakdown(op, costsByTag) ==
  IF op = "analyzeCostsByTags" THEN FormatTags(op, costsByTag)
  ELSE SortDescending(FormatTags(op, costsByTag), TotalsOf(FormatTags(op, costsByTag)))

\* what the operation returns or that it throws: a failing fetch of the
\* subscriptions or of the billing data is not caught
TagOperation(op, in) ==
  IF in.upstreamFails
    THEN [threw |-> TRUE, subscriptions |-> <<>>, costBreakdown |-> <<>>, totalCost |-> 0]
  ELSE LET subs == subscriptionsWithTags(op, in.Items, in.answers)
           breakdown == IF op \in AggregatingOps
                          THEN costBreakdown(op, ForEachItem(<<>>, subs, in.billingItems))
                          ELSE <<>>
       IN  [threw |-> FALSE,
            subscriptions |-> subs,
            costBreakdown |-> breakdown,
            totalCost |-> Reduce(0, TotalsOf(breakdown))]

\* prices of line items: a small one and the least one that a small one
\* added to it is rounded away from
Prices == {1, 2 ^ Precision}

BillingItems ==
  [SubscriptionId : 1..(MaxSubs + 1), TotalSalesPrice : Prices]

\* what the upstream answers to one operation: the fetch of the
\* subscriptions or of the billing data fails, or there are n subscriptions,
\* an answer to each tag fetch and the line items
TagInput(op, n, answers, billingItems) ==
  [op |-> op, upstreamFails |-> FALSE, Items |-> [i \in 1..n |-> i],
   answers |-> answers, billingItems |-> billingItems]

FailedInput(op) ==
  [op |-> op, upstreamFails |-> TRUE, Items |-> <<>>, answers |-> <<>>,
   billingItems |-> <<>>]

\* a caller runs one operation, the upstream answering with in
Allocate(in) ==
  /\ callee = "none"
  /\ callee' = in.op
  /\ input' = in
  /\ output' = TagOperation(in.op, in)

-----------------------------------------------------------------------------
(* detectCostAnomalies (crayon-client.ts:587-648), applied to the line      *)
(* items getHistoricalBilling returned. Prices are whole amounts; a         *)
(* changePercent is kept in hundredths of a percent, the two decimals       *)
(* toFixed(2) leaves, and the threshold test is made on the exact quotient. *)

MaxCostItems == 3       \* line items of the billing data
TopAnomalies == 50      \* crayon-client.ts:641
DefaultChangeThreshold == 25   \* crayon-client.ts:587

MathAbs(x) == IF x < 0 THEN -x ELSE x

\* item.SubscriptionId || 'unknown', as the key of costsBySubscription; a
\* missing id is 0 here
SubscriptionKey(item) ==
  IF item.SubscriptionId = 0 THEN "unknown" ELSE ToString(item.SubscriptionId)

\* costsBySubscription[subId], the items of one key in the order they came
costsBySubscription(Items, subId) ==
  SelectSeq(Items, LAMBDA item : SubscriptionKey(item) = subId)

\* Object.entries(costsBySubscription): the keys that are integers by rising
\* value, then 'unknown'
SubscriptionKeys(Items) ==
  LET ids == {Items[i].SubscriptionId : i \in 1..Len(Items)} \ {0}
      present == SelectSeq([id \in 1..2 |-> id], LAMBDA id : id \in ids)
  IN  [i \in 1..Len(present) |-> ToString(present[i])]
      \o (IF \E i \in 1..Len(Items) : Items[i].SubscriptionId = 0
            THEN <<"unknown">> ELSE <<>>)

\* costs.sort((a, b) => new Date(a.Date || 0).getTime() - new Date(b.Date || 0).getTime());
\* Date is the index of the item's month
sortedCosts(costs) ==
  SortDescending(costs, [i \in 1..Len(costs) |-> -costs[i].Date])

\* IsAnomaly taking a change equal to the threshold as well
IsAnomalyAtThreshold(previous, current, changeThresholdPercent) ==
  MathAbs(current - previous) * 100 >= changeThresholdPercent * previous

\* Math.abs(changePercent) > changeThresholdPercent, for previous > 0
IsAnomaly(previous, current, changeThresholdPercent) ==
  MathAbs(current - previous) * 100 > changeThresholdPercent * previous

\* parseFloat(changePercent.toFixed(2)), in hundredths: the nearest one, the
\* greater of two equally near
changePercent(previous, current) ==
  (2 * (current - previous) * 10000 + previous) \div (2 * previous)

RECURSIVE AnomaliesOf(_, _, _, _)
\* the loop over one subscription's sorted items, from index i on (610-630)
AnomaliesOf(subId, sorted, i, changeThresholdPercent) ==
  IF i > Len(sorted) THEN <<>>
  ELSE LET current == sorted[i].TotalSalesPrice
           previous == sorted[i - 1].TotalSalesPrice
           found == IF previous > 0 /\ IsAnomaly(previous, current, changeThresholdPercent)
                      THEN <<[subscriptionId |-> subId,
                              previousCost |-> previous,
                              currentCost |-> current,
                              change |-> current - previous,
                              changePercent |-> changePercent(previous, current),
                              date |-> sorted[i].Date]>>
                      ELSE <<>>
       IN  found \o AnomaliesOf(subId, sorted, i + 1, changeThresholdPercent)

RECURSIVE ForEachSubscription(_, _, _)
\* Object.entries(costsBySubscription).forEach (607-631)
ForEachSubscription(subIds, Items, changeThresholdPercent) ==
  IF subIds = <<>> THEN <<>>
  ELSE AnomaliesOf(Head(subIds), sortedCosts(costsBySubscription(Items, Head(subIds))), 2,
                   changeThresholdPercent)
       \o ForEachSubscription(Tail(subIds), Items, changeThresholdPercent)

RECURSIVE ChangesOf(_)
ChangesOf(anomalies) ==
  IF anomalies = <<>> THEN <<>>
  ELSE <<Head(anomalies).changePercent>> \o ChangesOf(Tail(anomalies))

\* the sort comparing the changes with their signs
SortBySignedChange(anomalies) == SortDescending(anomalies, ChangesOf(anomalies))

\* anomalies.sort((a, b) => Math.abs(b.changePercent) - Math.abs(a.changePercent)) (634)
SortByChange(anomalies) ==
  SortDescending(anomalies,
                 [i \in 1..Len(anomalies) |-> MathAbs(ChangesOf(anomalies)[i])])

\* detectCostAnomalies counting the anomalies it returns
detectCostAnomaliesCountingReturned(Items, changeThresholdPercent) ==
  LET anomalies ==
        SortByChange(ForEachSubscription(SubscriptionKeys(Items), Items,
                                         changeThresholdPercent))
      top == SubSeq(anomalies, 1, IF Len(anomalies) < TopAnomalies
                                    THEN Len(anomalies) ELSE TopAnomalies)
  IN  [changeThresholdPercent |-> changeThresholdPercent,
       anomaliesFound |-> Len(top),
       anomalies |-> top,
       totalSubscriptionsAnalyzed |-> Len(SubscriptionKeys(Items))]

\* what detectCostAnomalies returns (636-647)
detectCostAnomalies(Items, changeThresholdPercent) ==
  LET anomalies ==
        SortByChange(ForEachSubscription(SubscriptionKeys(Items), Items,
                                         changeThresholdPercent))
  IN  [changeThresholdPercent |-> changeThresholdPercent,
       anomaliesFound |-> Len(anomalies),
       anomalies |-> SubSeq(anomalies, 1, IF Len(anomalies) < TopAnomalies
                                            THEN Len(anomalies) ELSE TopAnomalies),
       totalSubscriptionsAnalyzed |-> Len(SubscriptionKeys(Items))]

\* the line items of the billing data: of subscription 1 or 2 or of none,
\* with a price and a month
CostItems ==
  [SubscriptionId : 0..2, TotalSalesPrice : {0, 100, 125, 150}, Date : 1..2]

ChangeThresholds == {DefaultChangeThreshold, 50}

\* a caller runs detectCostAnomalies on the billing data Items
Detect(Items, changeThresholdPercent) ==
  /\ callee' = "detectCostAnomalies"
  /\ input' = [Items |-> Items, changeThresholdPercent |-> changeThresholdPercent]
  /\ output' = detectCostAnomalies(Items, changeThresholdPercent)

MaxSeries == 54       \* line items of a long billing history

\* price histories that repeat: the prices of one period
Periods ==
  {<<100, 150>>, <<100, 400>>, <<100, 150, 400>>, <<100, 125>>, <<100, 150, 100, 400>>}

RECURSIVE Series(_, _, _)
\* a billing history of n line items, one a month, priced by the repeating
\* period, of one subscription or alternating between two
Series(n, period, subscriptions) ==
  IF n = 0 THEN <<>>
  ELSE Append(Series(n - 1, period, subscriptions),
              [SubscriptionId |-> 1 + (n % subscriptions),
               TotalSalesPrice |-> period[((n - 1) % Len(period)) + 1],
               Date |-> n])

-----------------------------------------------------------------------------
(* getCostTrends (crayon-client.ts:529-582), applied to the line items      *)
(* getHistoricalBilling returned. A line item's TotalSalesPrice is the      *)
(* number the other operations read (611, 681, 819, 864, 946) or an object  *)
(* with a Value. A month key 'YYYY-MM' is the number YYYYMM, 'unknown' the  *)
(* number UnknownMonth: Object.entries(costsByMonth).sort() compares the    *)
(* entries as the strings 'YYYY-MM,cost', so by month, 'unknown' last.      *)

MaxTrendItems == 3       \* line items of the billing data
UnknownMonth == 999999   \* crayon-client.ts:542

\* `${startDate.getFullYear()}-${String(startDate.getMonth() + 1).padStart(2, '0')}`
\* or 'unknown' for an item without StartDate (539-542)
MonthOf(item) ==
  IF item.StartDate = Undefined THEN UnknownMonth
  ELSE item.StartDate.year * 100 + item.StartDate.month

\* item.TotalSalesPrice?.Value || 0
ValueOf(item) ==
  IF "Value" \in DOMAIN item.TotalSalesPrice THEN item.TotalSalesPrice.Value ELSE 0

\* costsByMonth[month] = (costsByMonth[month] || 0) + cost, the months kept
\* in the order they were first written
AddToMonth(costsByMonth, month, cost) ==
  IF \E i \in 1..Len(costsByMonth) : costsByMonth[i].month = month
    THEN LET at == CHOOSE i \in 1..Len(costsByMonth) : costsByMonth[i].month = month
         IN  [costsByMonth EXCEPT ![at].cost = Plus(@, cost)]
    ELSE Append(costsByMonth, [month |-> month, cost |-> Plus(0, cost)])

RECURSIVE costsByMonth(_, _)
\* historicalData.Items.forEach (537-547)
costsByMonth(acc, Items) ==
  IF Items = <<>> THEN acc
  ELSE costsByMonth(AddToMonth(acc, MonthOf(Head(Items)), ValueOf(Head(Items))),
                    Tail(Items))

RECURSIVE MonthsOf(_)
MonthsOf(entries) ==
  IF entries = <<>> THEN <<>> ELSE <<-Head(entries).month>> \o MonthsOf(Tail(entries))

\* a reduce that compared every month with the first one
TrendPointFromFirst(arr, idx) ==
  IF idx = 1
    THEN [month |-> arr[1].month, cost |-> arr[1].cost, previousCost |-> NullV,
          change |-> NullV, changePercent |-> NullV]
    ELSE LET prevCost == arr[1].cost
             cost == arr[idx].cost
         IN  [month |-> arr[idx].month, cost |-> cost, previousCost |-> IntV(prevCost),
              change |-> IntV(cost - prevCost),
              changePercent |-> IntV(IF prevCost # 0 THEN changePercent(prevCost, cost)
                                     ELSE 0)]

\* the first point, and the point of entry idx with the entry before it
\* (553-568); a changePercent is in hundredths of a percent
TrendPoint(arr, idx) ==
  IF idx = 1
    THEN [month |-> arr[1].month, cost |-> arr[1].cost, previousCost |-> NullV,
          change |-> NullV, changePercent |-> NullV]
    ELSE LET prevCost == arr[idx - 1].cost
             cost == arr[idx].cost
         IN  [month |-> arr[idx].month, cost |-> cost, previousCost |-> IntV(prevCost),
              change |-> IntV(cost - prevCost),
              changePercent |-> IntV(IF prevCost # 0 THEN changePercent(prevCost, cost)
                                     ELSE 0)]

RECURSIVE TrendPoints(_, _)
TrendPoints(arr, idx) ==
  IF idx > Len(arr) THEN <<>>
  ELSE <<TrendPoint(arr, idx)>> \o TrendPoints(arr, idx + 1)

\* what getCostTrends returns (550-581)
getCostTrends(Items) ==
  LET entries == costsByMonth(<<>>, Items)
      trends == TrendPoints(SortDescending(entries, MonthsOf(entries)), 1)
  IN  [trends |-> trends, totalMonths |-> Len(trends)]

\* the line items of the billing data: with a start date in one of three
\* months or with none, priced by a number or by an object
TrendItems ==
  [StartDate : {Undefined, [year |-> 2024, month |-> 12], [year |-> 2025, month |-> 1],
                [year |-> 2025, month |-> 2]},
   TotalSalesPrice : {IntV(2)} \cup {[Value |-> v] : v \in {1, 2, 3}}]

\* a caller runs getCostTrends on the billing data Items
Trend(Items) ==
  /\ callee' = "getCostTrends"
  /\ input' = [Items |-> Items]
  /\ output' = getCostTrends(Items)

-----------------------------------------------------------------------------
(* The date range of getHistoricalBilling (crayon-client.ts:306-327). A     *)
(* Date is its local calendar fields [year, month (0..11), date, hours];    *)
(* the zone is tz hours east of UTC. Minutes and smaller are left out: the  *)
(* code sets them to 0 with the hours and never reads them.                 *)

IsLeap(year) == (year % 4 = 0 /\ year % 100 # 0) \/ year % 400 = 0

DaysIn(year, month) ==
  IF month = 1 THEN (IF IsLeap(year) THEN 29 ELSE 28)
  ELSE IF month \in {3, 5, 8, 10} THEN 30 ELSE 31

\* ECMAScript MakeDay: the month is carried into the year, and a date past
\* the end of the month into the month after (a date before the first into
\* the month before)
MakeDay(year, month, date) ==
  LET y == (year * 12 + month) \div 12
      m == (year * 12 + month) % 12
      py == (year * 12 + month - 1) \div 12
      pm == (year * 12 + month - 1) % 12
      ny == (year * 12 + month + 1) \div 12
      nm == (year * 12 + month + 1) % 12
  IN  IF date > DaysIn(y, m)
        THEN [year |-> ny, month |-> nm, date |-> date - DaysIn(y, m)]
      ELSE IF date < 1
        THEN [year |-> py, month |-> pm, date |-> date + DaysIn(py, pm)]
      ELSE [year |-> y, month |-> m, date |-> date]

\* Date.prototype.setMonth, setDate and setHours, in local time
setMonth(d, month) ==
  LET day == MakeDay(d.year, month, d.date)
  IN  [year |-> day.year, month |-> day.month, date |-> day.date, hours |-> d.hours]

setDate(d, date) ==
  LET day == MakeDay(d.year, d.month, date)
  IN  [year |-> day.year, month |-> day.month, date |-> day.date, hours |-> d.hours]

setHours(d, hours) == [d EXCEPT !.hours = hours]

\* Date.prototype.toISOString: the fields of the instant in UTC, the month
\* written 01..12
toISOString(d, tz) ==
  LET h == d.hours - tz
      day == IF h < 0 THEN MakeDay(d.year, d.month, d.date - 1)
             ELSE IF h > 23 THEN MakeDay(d.year, d.month, d.date + 1)
             ELSE MakeDay(d.year, d.month, d.date)
  IN  [year |-> day.year, month |-> day.month + 1, date |-> day.date,
       hours |-> (h + 24) % 24]

\* the from and to of the filter getHistoricalBilling hands to
\* getGroupedBillingStatements when the clock reads today (309-325)
HistoricalFilter(today, monthsBack, tz) ==
  LET endDate == today
      startDate == setHours(setDate(setMonth(today, today.month - monthsBack), 1), 0)
  IN  [from |-> toISOString(startDate, tz), to |-> toISOString(endDate, tz)]

\* the days of a leap year and of the year after it, early and late in the day
Todays ==
  {d \in [year : {2024, 2025}, month : 0..11, date : 1..31, hours : {1, 23}] :
     d.date <= DaysIn(d.year, d.month)}

\* the zones of the server: UTC, two hours east, five hours west
Zones == {0, 2, -5}

\* a caller runs getHistoricalBilling at the instant today in the zone tz
Historical(today, monthsBack, tz) ==
  /\ callee' = "getHistoricalBilling"
  /\ input' = [today |-> today, monthsBack |-> monthsBack, tz |-> tz]
  /\ output' = HistoricalFilter(today, monthsBack, tz)

-----------------------------------------------------------------------------
(* The answers of getAzureSubscriptions (crayon-client.ts:236-281), after   *)
(* authenticate has returned. An upstream answer is [status, data]: status  *)
(* 200 carries data, an error status is an axios error whose                *)
(* response.status it is, status 0 an error without a response.             *)

MaxTenants == 4      \* customer tenants asked about
MaxHits == 2         \* subscriptions the subscriptions lookup lists

ErrorStatuses == {0, 400, 401, 403, 404, 500, 503}

\* what the plan lookup can be answered with: a plan with an Id, a plan
\* without one (Id 0), no data, or an error
PlanAnswers ==
  {[status |-> 200, data |-> [Id |-> id]] : id \in {0, 11, 12}}
    \cup {[status |-> 200, data |-> NullV]}
    \cup {[status |-> s, data |-> NullV] : s \in ErrorStatuses}

SubscriptionsAnswers ==
  {[status |-> 200, data |-> [Items |-> [i \in 1..n |-> i], TotalHits |-> n]] :
     n \in 0..MaxHits}
    \cup {[status |-> s, data |-> NullV] : s \in ErrorStatuses}

\* { Items: [], TotalHits: 0, message: `No Azure Plan found for customer
\* tenant ${customerTenantId}` } (257-261, 275-279)
NoAzurePlan(customerTenantId) ==
  [Items |-> <<>>, TotalHits |-> 0, message |-> customerTenantId]

Awaiting(what) == [pc |-> what, value |-> Undefined, error |-> 0]
Resolved(value) == [pc |-> "returned", value |-> value, error |-> 0]
Rejected(status) == [pc |-> "threw", value |-> Undefined, error |-> status]

\* a catch block that answered every failure with the empty result
catchEveryError(answer, customerTenantId) ==
  Resolved(NoAzurePlan(customerTenantId))

\* the catch block (272-281) given the failed request's answer
catch(answer, customerTenantId) ==
  IF answer.status = 404 THEN Resolved(NoAzurePlan(customerTenantId))
  ELSE Rejected(answer.status)

\* getAzureSubscriptions asks for the tenant's Azure plan (240-252)
GetAzurePlan(customerTenantId) ==
  /\ callee = "none"
  /\ callee' = "getAzureSubscriptions"
  /\ input' = [customerTenantId |-> customerTenantId, plan |-> Undefined,
               subscriptions |-> Undefined]
  /\ output' = Awaiting("azurePlan")

\* the plan lookup is answered (254-262); a plan with an Id is followed by
\* the subscriptions lookup (264-270)
AzurePlanAnswered(answer) ==
  /\ callee = "getAzureSubscriptions"
  /\ output.pc = "azurePlan"
  /\ callee' = callee
  /\ input' = [input EXCEPT !.plan = answer]
  /\ output' = IF answer.status # 200 THEN catch(answer, input.customerTenantId)
               ELSE IF answer.data = NullV \/ answer.data.Id = 0
                 THEN Resolved(NoAzurePlan(input.customerTenantId))
               ELSE Awaiting("azureSubscriptions")

\* the subscriptions lookup is answered (272)
AzureSubscriptionsAnswered(answer) ==
  /\ callee = "getAzureSubscriptions"
  /\ output.pc = "azureSubscriptions"
  /\ callee' = callee
  /\ input' = [input EXCEPT !.subscriptions = answer]
  /\ output' = IF answer.status # 200 THEN catch(answer, input.customerTenantId)
               ELSE Resolved(answer.data)

-----------------------------------------------------------------------------
(* The Streamable HTTP endpoint app.all('/mcp') (part_000:1355-1417,       *)
(* index.ts:1231-1290) and the transports map (part_000:1286). A transport  *)
(* is the SDK's StreamableHTTPServerTransport: it takes its session id and  *)
(* calls onsessioninitialized when it handles an acceptable initialize      *)
(* request, it closes when it handles a DELETE, and Protocol.connect keeps  *)
(* the onclose handler set before it. The session id randomUUID gives the   *)
(* k-th transport is the string of k.                                       *)

MaxTransports == 2     \* transports created while the process runs

\* the properties every object literal inherits from Object.prototype:
\* transports[key] is a function or an object for these keys
ObjectPrototypeKeys == {"constructor", "toString", "__proto__", "hasOwnProperty"}

\* the mcp-session-id header: absent, empty, the id of a session that can
\* exist, one that cannot, or the name of an inherited property
SessionIds ==
  {Undefined, StrV(""), StrV("constructor")}
    \cup {StrV(ToString(k)) : k \in 1..(MaxTransports + 1)}

\* a request to /mcp; acceptable: its headers and JSON-RPC body are what
\* the transport accepts for a request of its method
Requests ==
  [method : {"POST", "GET", "DELETE"}, sessionId : SessionIds,
   bodyMethod : {"initialize", "tools/call", "none"}, acceptable : BOOLEAN]

\* transports[sessionId]: the transport of an own entry, "inherited" for a
\* property of Object.prototype, undefined otherwise
Lookup(map, sessionId) ==
  IF sessionId.str \in DOMAIN map THEN IntV(map[sessionId.str])
  ELSE IF sessionId.str \in ObjectPrototypeKeys THEN StrV("inherited")
  ELSE Undefined

Transport == [sessionId |-> Undefined, initialized |-> FALSE, closed |-> FALSE]

Reply(status, handledBy, created) ==
  [status |-> status, handledBy |-> handledBy, created |-> created]

\* transport.onclose (part_000:1379-1385): delete transports[sid]
onclose(map, sid) ==
  IF Truthy(sid) /\ sid.str \in DOMAIN map
    THEN [s \in DOMAIN map \ {sid.str} |-> map[s]]
    ELSE map

\* onsessioninitialized (part_000:1372-1375): transports[newSessionId] = transport
onsessioninitialized(map, newSessionId, t) ==
  [s \in DOMAIN map \cup {newSessionId} |-> IF s = newSessionId THEN t ELSE map[s]]

\* transport.handleRequest(req, res, req.body) of transport t: the status it
\* answers with, and what becomes of the transport and of the map
handleRequest(t, req, all, map) ==
  LET tr == all[t]
      sid == StrV(ToString(t))
  IN  IF ~req.acceptable
        THEN [status |-> 406, all |-> all, map |-> map]
      ELSE IF req.method = "POST" /\ req.bodyMethod = "initialize"
        THEN IF tr.initialized
               THEN [status |-> 400, all |-> all, map |-> map]
               ELSE [status |-> 200,
                     all |-> [all EXCEPT ![t].initialized = TRUE, ![t].sessionId = sid],
                     map |-> onsessioninitialized(map, sid.str, t)]
      ELSE IF ~tr.initialized
        THEN [status |-> 400, all |-> all, map |-> map]
      ELSE IF req.sessionId # tr.sessionId
        THEN [status |-> 404, all |-> all, map |-> map]
      ELSE IF req.method = "DELETE"
        THEN [status |-> 200, all |-> [all EXCEPT ![t].closed = TRUE],
              map |-> onclose(map, tr.sessionId)]
      ELSE [status |-> 200, all |-> all, map |-> map]

\* app.all('/mcp') handles one request (part_000:1355-1417)
Mcp(req) ==
  LET sessionId == req.sessionId
      found == IF Truthy(sessionId) THEN Lookup(transports, sessionId) ELSE Undefined
  IN  /\ callee' = "mcp"
      /\ input' = req
      /\ IF found # Undefined
           THEN IF IsInt(found)
                  THEN \* the session's transport handles the request
                       LET r == handleRequest(found.int, req, sessions, transports)
                       IN  /\ sessions' = r.all
                           /\ transports' = r.map
                           /\ output' = Reply(r.status, found.int, FALSE)
                  ELSE \* transport.handleRequest is not a function: the
                       \* catch block answers (1404-1415)
                       /\ output' = Reply(500, 0, FALSE)
                       /\ UNCHANGED <<sessions, transports>>
         ELSE IF ~Truthy(sessionId) /\ req.method = "POST" /\ req.bodyMethod = "initialize"
           THEN \* a new transport, connected to the server, handles it
                /\ Len(sessions) < MaxTransports
                /\ LET t == Len(sessions) + 1
                       r == handleRequest(t, req, Append(sessions, Transport), transports)
                   IN  /\ sessions' = r.all
                       /\ transports' = r.map
                       /\ output' = Reply(r.status, t, TRUE)
         ELSE \* 'Bad Request: No valid session ID provided' (1388-1399)
              /\ output' = Reply(400, 0, FALSE)
              /\ UNCHANGED <<sessions, transports>>

SessionInit ==
  /\ transports = [s \in {} |-> 0]
  /\ sessions = <<>>

-----------------------------------------------------------------------------
(* Specifications                                                          *)

\* no function has been applied on its own
PureInit ==
  /\ callee = "none"
  /\ input = Undefined
  /\ output = Undefined

Init == HandlerInit /\ ClientInit /\ BreakerInit /\ PureInit /\ SessionInit

\* the server handling tool calls
Next ==
  \/ /\ \E name \in ToolNames, args \in SampleArgs, authHeader \in Headers :
          ReceiveCall(name, args, authHeader)
     /\ UNCHANGED <<clientVars, breakerVars, pureVars, sessionVars>>
  \/ Validate /\ UNCHANGED <<clientVars, breakerVars, pureVars, sessionVars>>
  \/ ValidateIndex /\ UNCHANGED <<clientVars, breakerVars, pureVars, sessionVars>>
  \/ Dispatch /\ UNCHANGED <<clientVars, breakerVars, pureVars, sessionVars>>
  \/ ClientSettles /\ UNCHANGED <<clientVars, breakerVars, pureVars, sessionVars>>
  \/ Return /\ UNCHANGED <<clientVars, breakerVars, pureVars, sessionVars>>

Spec == Init /\ [][Next]_vars

\* the upstream client running operations against its token cache
ClientNext ==
  \/ /\ \E op \in DOMAIN Operations : StartOp(op)
     /\ UNCHANGED <<handlerVars, breakerVars, pureVars, sessionVars>>
  \/ /\ \E f \in 1..MaxFibers : Step(f)
     /\ UNCHANGED <<handlerVars, breakerVars, pureVars, sessionVars>>
  \/ /\ \E f \in 1..MaxFibers, expiresIn \in ExpiresInValues : TokenResponse(f, expiresIn)
     /\ UNCHANGED <<handlerVars, breakerVars, pureVars, sessionVars>>
  \/ /\ \E f \in 1..MaxFibers : TokenFailure(f)
     /\ UNCHANGED <<handlerVars, breakerVars, pureVars, sessionVars>>
  \/ /\ \E f \in 1..MaxFibers, status \in {200, 404, 500} : DataResponse(f, status)
     /\ UNCHANGED <<handlerVars, breakerVars, pureVars, sessionVars>>
  \/ /\ \E d \in TickSteps : Tick(d)
     /\ UNCHANGED <<handlerVars, breakerVars, pureVars, sessionVars>>

\* the circuit breaker wrapper serving execute() calls
BreakerNext ==
  \/ /\ \E fallback \in Fallbacks : Execute(fallback)
     /\ UNCHANGED <<handlerVars, clientVars, pureVars, sessionVars>>
  \/ /\ \E i \in 1..(MaxInflight + 1) : CallSucceeds(i)
     /\ UNCHANGED <<handlerVars, clientVars, pureVars, sessionVars>>
  \/ /\ \E i \in 1..(MaxInflight + 1) : CallFails(i)
     /\ UNCHANGED <<handlerVars, clientVars, pureVars, sessionVars>>
  \/ TimerFires /\ UNCHANGED <<handlerVars, clientVars, pureVars, sessionVars>>
  \/ /\ \E fires \in 0..MaxFires, failures \in 0..MaxFires : Rotate(fires, failures)
     /\ UNCHANGED <<handlerVars, clientVars, pureVars, sessionVars>>

\* the authorization middleware handling requests
AuthzNext ==
  /\ \E user \in Principals, body \in Bodies, query \in Queries,
        requiredRole \in RequiredRoles : Authorize(user, body, query, requiredRole)
  /\ UNCHANGED <<handlerVars, clientVars, breakerVars, sessionVars>>

\* the process that runs part_000 over HTTP with authentication
Deployed == [entry |-> "part_000", transportMode |-> "http", AUTH_ENABLED |-> TRUE]

ClientSpecInit ==
  HandlerInit /\ config = Deployed /\ ClientInit /\ BreakerInit /\ PureInit /\ SessionInit

ClientSpec == ClientSpecInit /\ [][ClientNext]_vars

BreakerSpec == ClientSpecInit /\ [][BreakerNext]_vars

AuthzSpec == ClientSpecInit /\ [][AuthzNext]_vars

\* a tag-allocation operation applied to one set of upstream answers
TagsNext ==
  /\ callee = "none"
  /\ \/ \E op \in TagOps : Allocate(FailedInput(op))
     \/ \E op \in TagOps, n \in 0..MaxSubs, k \in 0..MaxBillingItems :
          /\ op \in AggregatingOps \/ k = 0
          /\ \E answers \in [1..n -> {"throws", "empty", "tags"}],
                billingItems \in [1..k -> BillingItems] :
               Allocate(TagInput(op, n, answers, billingItems))
  /\ UNCHANGED <<handlerVars, clientVars, breakerVars, sessionVars>>

TagsSpec == ClientSpecInit /\ [][TagsNext]_vars

\* detectCostAnomalies applied to one set of line items
AnomalyNext ==
  /\ callee = "none"
  /\ \E k \in 0..MaxCostItems, changeThresholdPercent \in ChangeThresholds :
       \E Items \in [1..k -> CostItems] : Detect(Items, changeThresholdPercent)
  /\ UNCHANGED <<handlerVars, clientVars, breakerVars, sessionVars>>

AnomalySpec == ClientSpecInit /\ [][AnomalyNext]_vars

\* detectCostAnomalies applied to one long billing history
TopAnomaliesNext ==
  /\ callee = "none"
  /\ \E n \in 0..MaxSeries, period \in Periods, subscriptions \in 1..2,
        changeThresholdPercent \in ChangeThresholds :
       Detect(Series(n, period, subscriptions), changeThresholdPercent)
  /\ UNCHANGED <<handlerVars, clientVars, breakerVars, sessionVars>>

TopAnomaliesSpec == ClientSpecInit /\ [][TopAnomaliesNext]_vars

\* getCostTrends applied to one set of line items
TrendsNext ==
  /\ callee = "none"
  /\ \E k \in 0..MaxTrendItems : \E Items \in [1..k -> TrendItems] : Trend(Items)
  /\ UNCHANGED <<handlerVars, clientVars, breakerVars, sessionVars>>

TrendsSpec == ClientSpecInit /\ [][TrendsNext]_vars

\* getHistoricalBilling called once, at some instant of two years
HistoricalNext ==
  /\ callee = "none"
  /\ \E today \in Todays : \E monthsBack \in 1..24 : \E tz \in Zones :
       Historical(today, monthsBack, tz)
  /\ UNCHANGED <<handlerVars, clientVars, breakerVars, sessionVars>>

HistoricalSpec == ClientSpecInit /\ [][HistoricalNext]_vars

\* getAzureSubscriptions called once for some tenant and answered by upstream
AzureNext ==
  /\ \/ \E customerTenantId \in 1..MaxTenants : GetAzurePlan(customerTenantId)
     \/ \E answer \in PlanAnswers : AzurePlanAnswered(answer)
     \/ \E answer \in SubscriptionsAnswers : AzureSubscriptionsAnswered(answer)
  /\ UNCHANGED <<handlerVars, clientVars, breakerVars, sessionVars>>

AzureSpec == ClientSpecInit /\ [][AzureNext]_vars

\* the HTTP endpoint answering requests
SessionNext ==
  /\ \E req \in Requests : Mcp(req)
  /\ UNCHANGED <<handlerVars, clientVars, breakerVars>>

SessionSpec == ClientSpecInit /\ [][SessionNext]_vars

-----------------------------------------------------------------------------
(* Claims                                                                  *)

\* C1: whenever the client sends an upstream request carrying a bearer
\* token, the expiry recorded with that token is later than the current time
C1_TokenNotExpiredWhenUsed ==
  lastRequest.kind = "data" => lastRequest.token.exp > now

\* C2: at most one token request (POST /connect/token) is in flight at any
\* time, however many operations call authenticate() concurrently
C2_SingleTokenRequestInFlight ==
  Cardinality({f \in DOMAIN fibers : fibers[f].st = "awaitToken"}) <= 1

\* C3: for a tool call that carries an organizationId, a client operation
\* is invoked only if the caller's Principal has the organization in its
\* allow-list and holds the required role
C3_AuthorizedBeforeDispatch ==
  (/\ config.transportMode = "http" /\ config.AUTH_ENABLED
   /\ invoked # <<>>
   /\ "organizationId" \in DOMAIN schemas(request.name)
   /\ Get(request.args, "organizationId") # Undefined)
    => authorizeOrganization(request.user, Get(request.args, "organizationId"),
                             "viewer") = "next"

\* C4: a tool call whose arguments fail validation never reaches the switch,
\* no client operation is invoked for it, and the payload it is answered
\* with is tagged isError
C4_ValidationFailureStopsAtBoundary ==
  (hpc # "idle" /\ validateToolInput(request.name, request.args).threw)
    => /\ hpc \in {"validate", "returned"}
       /\ invoked = <<>>
       /\ hpc = "returned" => response.isError

\* C4 witness: part_000 has answered a call with an unsafe name pattern
C4_RejectedCallAnswered ==
  /\ config.entry = "part_000"
  /\ hpc = "returned"
  /\ request.name = "find_similar_subscriptions_and_invoices"
  /\ Get(request.args, "namePattern") = StrV("(.*)+")
  /\ validateToolInput(request.name, request.args).threw
  /\ response.isError
  /\ invoked = <<>>

\* C5: for a tool call with valid arguments, the argument object the client
\* operation receives is the normalized object validation produced
C5_ClientReceivesNormalizedArgs ==
  (hpc = "client" /\ SwitchCase(request.name).whole /\ invoked[1].args # <<>>)
    => invoked[1].args = <<validateAsync(request.name, request.args).value>>

\* C6: validation never rejects a tool of the catalog because of its name
C6_CatalogToolNotRejectedByName ==
  (hpc = "returned" /\ request.name \in tools)
    => response.text # "No validation schema for tool"

\* C7: while a tool call waits for a client operation, the operation runs
\* as a call of the circuit breaker, under the breaker's timeout
C7_ClientCallsRunThroughBreaker ==
  hpc = "client" => InFlight(timers) # {}

C10_FallbackReturnedWheneverPassed ==
  (lastExecute.event \in {"rejected", "settled"} /\ lastExecute.cause # "success")
    => lastExecute.outcome =
         (IF lastExecute.fallback = Undefined THEN "threw" ELSE "fallback")

\* C11 as stated: a successful token request replaces the cache with an
\* expiry of the time authenticate was entered plus the answer's expires_in
C11_ExpiryIsEntryPlusExpiresIn ==
  [][lastRequest'.kind = "tokenResponse"
       => \E f \in DOMAIN fibers :
            /\ fibers[f].st = "awaitToken" /\ fibers'[f].st = "ready"
            /\ tokenExpiry' = fibers[f].now0 + lastRequest'.expiresIn]_vars

\* C11 amended: authenticate returns the cached token without a request
\* exactly when a token is cached and tokenExpiry > now + 60; otherwise it
\* sends one token request, and the answer replaces the cache with the new
\* token and an expiry of the time authenticate was entered plus expires_in,
\* or plus 3600 when the answer has no (or a zero) expires_in
C11_AuthenticateCachesUntilMargin ==
  [][/\ \A f \in Ready :
          (/\ \A g \in Ready : f <= g
           /\ fibers[f].prog # <<>>
           /\ Head(fibers[f].prog).ins = "auth")
            => IF accessToken # NoToken /\ tokenExpiry > now + RefreshMargin
                 THEN /\ lastRequest'.kind = "none"
                      /\ fibers'[f].st = "ready"
                      /\ fibers'[f].token = accessToken
                      /\ UNCHANGED <<accessToken, tokenExpiry>>
                 ELSE /\ lastRequest'.kind = "token"
                      /\ fibers'[f].st = "awaitToken"
                      /\ fibers'[f].now0 = now
     /\ lastRequest'.kind = "token"
          => Cardinality({f \in DOMAIN fibers' : fibers'[f].st = "awaitToken"})
               = Cardinality({f \in DOMAIN fibers : fibers[f].st = "awaitToken"}) + 1
     /\ lastRequest'.kind = "tokenResponse"
          => \E f \in DOMAIN fibers :
               /\ fibers[f].st = "awaitToken" /\ fibers'[f].st = "ready"
               /\ fibers'[f].token = accessToken'
               /\ accessToken' = Token(tokenExpiry')
               /\ tokenExpiry' = fibers[f].now0 +
                    (IF lastRequest'.expiresIn # 0 THEN lastRequest'.expiresIn
                     ELSE DefaultExpiresIn)]_vars

\* C11 witness: a token answer that arrived after authenticate was entered
\* has replaced the cache
C11_CacheReplacedByLateAnswer ==
  /\ lastRequest.kind = "tokenResponse"
  /\ lastRequest.expiresIn # 0
  /\ accessToken = Token(tokenExpiry)
  /\ now > tokenExpiry - lastRequest.expiresIn

\* C12: authorizeOrganization calls next() exactly when the request has a
\* Principal, carries an organizationId that is a member of the Principal's
\* allow-list, and the Principal has requiredRole or admin; otherwise it
\* sends one response (401 without Principal, 400 without organizationId,
\* 403 otherwise) and does not call next(). The id a value carries is the
\* integer itself, or the integer a string spells exactly.
C12_NextIffAuthorized ==
  callee = "authorizeOrganization" =>
    LET organizationId == OrganizationIdOf(input.body, input.query)
        missing == organizationId \in {Undefined, NullV, IntV(0), StrV("")}
        id == IF IsInt(organizationId) THEN organizationId.int
              ELSE IF IsStr(organizationId) /\ StringToNumber(organizationId.str) # Undefined
                THEN StringToNumber(organizationId.str).int
              ELSE -1
        allowed == /\ input.user # NoUser
                   /\ ~missing
                   /\ id \in input.user.organizations
                   /\ input.user.roles \cap {input.requiredRole, "admin"} # {}
    IN  /\ output.next = (IF allowed THEN 1 ELSE 0)
        /\ output.responses =
             (IF allowed THEN <<>>
              ELSE IF input.user = NoUser THEN <<"401">>
              ELSE IF missing THEN <<"400">>
              ELSE <<"403">>)

\* C13: each 403 of authorizeOrganization comes with a log event that
\* contains the attempted organization id and the Principal's allow-list
C13_DenialLogsOrgAndAllowList ==
  (callee = "authorizeOrganization" /\ output.responses = <<"403">>)
    => /\ Len(output.log) = 1
       /\ "attemptedOrgId" \in DOMAIN output.log[1]
       /\ "allowedOrgs" \in DOMAIN output.log[1]
       /\ output.log[1].attemptedOrgId = OrganizationIdOf(input.body, input.query)
       /\ output.log[1].allowedOrgs = input.user.organizations

\* C14: every failure payload of the handler, the answer to a validation
\* failure included, carries the name of the tool and a generated requestId
C14_FailurePayloadNamesToolAndRequest ==
  (config.entry = "part_000" /\ hpc = "returned" /\ response.isError)
    => /\ response.tool = request.name
       /\ response.requestId

\* C15: when a client operation throws during a tool call, the text returned
\* is the fixed message of the first test, in the order token, credential,
\* 401/Unauthorized, 403/Forbidden, 404/not found, timeout, Circuit,
\* ECONNREFUSED, that the error's message passes, the generic message when it
\* passes none; it is never the error's own message
C15_ClientErrorTextIsFirstCategory ==
  LET tests == << {"token"}, {"credential"}, {"401", "Unauthorized"},
                  {"403", "Forbidden"}, {"404", "not found"}, {"timeout"},
                  {"Circuit"}, {"ECONNREFUSED"} >>
      messages == << "Authentication error", "Authentication failed",
                     "Authentication failed", "Access denied", "Resource not found",
                     "Request timeout - service took too long to respond",
                     "Service temporarily unavailable", "Service connection failed" >>
      passed == {i \in 1..Len(tests) : \E sub \in tests[i] : Includes(error, sub)}
  IN  (hpc = "returned" /\ invoked # <<>> /\ error # NoError)
        => /\ response.isError
           /\ response.text # error
           /\ response.text \notin ClientErrors
           /\ IF passed = {}
                THEN response.text = "An error occurred processing your request"
                ELSE \E i \in passed : /\ \A j \in passed : i <= j
                                       /\ response.text = messages[i]

\* C15 witness: a refused connection whose address holds the digits 403 was
\* answered as an access denial, the earlier test in the order
C15_RefusedConnectionAnsweredAsDenial ==
  /\ hpc = "returned"
  /\ invoked # <<>>
  /\ error = "connect ECONNREFUSED 10.0.0.5:4030"
  /\ response.text = "Access denied"


\* C16: in each of the four tag-allocation operations, when the fetch of the
\* subscriptions and of the billing data succeeds, the operation returns a
\* result in which a subscription whose tag fetch failed has the empty tag
\* set and every subscription whose tag fetch answered has the tags fetched
C16_FailedTagFetchLeavesEmptyTags ==
  (callee \in TagOps /\ ~input.upstreamFails)
    => /\ ~output.threw
       /\ \A i \in 1..Len(input.Items) :
            /\ input.answers[i] = "throws"
                 => output.subscriptions[i].tags = TagsV(<<>>)
            /\ input.answers[i] = "tags"
                 => output.subscriptions[i].tags = TagsOfSub(input.Items[i])

C18_TotalIsSumOfSortedBreakdown ==
  (callee \in AggregatingOps /\ ~output.threw)
    => \A t \in 1..Len(output.costBreakdown) :
         LET entry == output.costBreakdown[t] IN
         /\ entry.total = Reduce(0, [b \in 1..Len(entry.breakdown) |-> entry.breakdown[b].cost])
         /\ \A b \in 1..(Len(entry.breakdown) - 1) :
              entry.breakdown[b].cost >= entry.breakdown[b + 1].cost


C20_AnomaliesByFallingChange ==
  callee = "detectCostAnomalies" =>
    /\ \A i \in 1..(Len(output.anomalies) - 1) :
         MathAbs(output.anomalies[i].changePercent)
           >= MathAbs(output.anomalies[i + 1].changePercent)
    /\ \A i \in 1..Len(output.anomalies) : output.anomalies[i].previousCost # 0

\* C20 witness: a subscription went from 100 to 150 and then to 0; the drop
\* of 100 percent is listed before the earlier rise of 50 percent
C20_LaterDropListedFirst ==
  /\ callee = "detectCostAnomalies"
  /\ input.Items = << [SubscriptionId |-> 1, TotalSalesPrice |-> 100, Date |-> 1],
                      [SubscriptionId |-> 1, TotalSalesPrice |-> 150, Date |-> 1],
                      [SubscriptionId |-> 1, TotalSalesPrice |-> 0, Date |-> 2] >>
  /\ Len(output.anomalies) = 2
  /\ output.anomalies[1].changePercent = -10000
  /\ output.anomalies[2].changePercent = 5000



\* C21: in the result of getCostTrends the first trend point has previousCost,
\* change and changePercent null; every later point has previousCost equal to
\* the cost of the point before it, change = cost - previousCost, and
\* changePercent the change in percent of previousCost to the nearest
\* hundredth, or exactly 0 when previousCost is 0.
C21_PointComparedWithTheOneBefore ==
  callee = "getCostTrends" =>
    \A i \in 1..Len(output.trends) :
      LET point == output.trends[i] IN
      IF i = 1
        THEN /\ point.previousCost = NullV
             /\ point.change = NullV
             /\ point.changePercent = NullV
        ELSE LET p == output.trends[i - 1].cost
                 c == point.cost
             IN  /\ point.previousCost = IntV(p)
                 /\ point.change = IntV(c - p)
                 /\ point.changePercent # NullV
                 /\ IF p = 0 THEN point.changePercent = IntV(0)
                    ELSE 2 * MathAbs(p * point.changePercent.int - (c - p) * 10000) <= p

\* three months costing 2, 3 and 1: the third point has previousCost 3,
\* change -2 and changePercent -66.67
C21_ThreeThenOne ==
  /\ callee = "getCostTrends"
  /\ Len(output.trends) = 3
  /\ output.trends[1].cost = 2
  /\ output.trends[3] = [month |-> 202502, cost |-> 1, previousCost |-> IntV(3),
                         change |-> IntV(-2), changePercent |-> IntV(-6667)]

\* C22: the trends of getCostTrends have one point per distinct month of the
\* line items (the items without a start date under one month of their own),
\* in strictly ascending month order, and a point's cost is the sum of the
\* prices of the line items of its month.
C22_OnePointPerMonthCostingItsItems ==
  callee = "getCostTrends" =>
    LET Items == input.Items
        trends == output.trends
        price(item) == IF "Value" \in DOMAIN item.TotalSalesPrice
                         THEN item.TotalSalesPrice.Value ELSE item.TotalSalesPrice.int
        RECURSIVE sum(_, _)
        sum(i, month) ==
          IF i = 0 THEN 0
          ELSE IF MonthOf(Items[i]) = month THEN Plus(sum(i - 1, month), price(Items[i]))
               ELSE sum(i - 1, month)
    IN  /\ {trends[t].month : t \in 1..Len(trends)} = {MonthOf(Items[i]) : i \in 1..Len(Items)}
        /\ \A t \in 1..(Len(trends) - 1) : trends[t].month < trends[t + 1].month
        /\ \A t \in 1..Len(trends) : trends[t].cost = sum(Len(Items), trends[t].month)

\* C23: whatever the current date (days 29, 30 and 31 included) and for every
\* monthsBack in 1..24, the from of getHistoricalBilling is 00:00 of day 1 of
\* the calendar month monthsBack months before the current calendar month,
\* and the to is the current instant.
C23_FromIsFirstOfTheMonthMonthsBack ==
  callee = "getHistoricalBilling" =>
    LET today == input.today
        months == today.year * 12 + today.month - input.monthsBack
        first == [year |-> months \div 12, month |-> months % 12, date |-> 1, hours |-> 0]
    IN  /\ output.from = toISOString(first, input.tz)
        /\ output.to = toISOString(today, input.tz)

\* C24: getAzureSubscriptions returns the empty result (no Items, TotalHits
\* 0) when the Azure-plan lookup or the subscriptions lookup is answered 404
\* or the plan has no Id; when either lookup fails with another status it
\* throws an error that carries that status.
C24_EmptyOn404OtherErrorsThrown ==
  (callee = "getAzureSubscriptions" /\ output.pc \in {"returned", "threw"}) =>
    LET last == IF input.subscriptions # Undefined THEN input.subscriptions ELSE input.plan
        noId == /\ input.plan.status = 200
                /\ (input.plan.data = NullV \/ input.plan.data.Id = 0)
    IN  /\ (last.status = 404 \/ noId)
             => /\ output.pc = "returned"
                /\ output.value.Items = <<>>
                /\ output.value.TotalHits = 0
        /\ last.status \notin {200, 404}
             => output = [pc |-> "threw", value |-> Undefined, error |-> last.status]

\* the plan has an Id and the subscriptions lookup is answered 404: the
\* empty result is returned
C24_SubscriptionsLookupNotFound ==
  /\ callee = "getAzureSubscriptions"
  /\ input.plan # Undefined
  /\ input.plan.status = 200
  /\ input.subscriptions # Undefined
  /\ input.subscriptions.status = 404
  /\ output = Resolved(NoAzurePlan(input.customerTenantId))

\* C25: a find_similar_subscriptions_and_invoices call whose namePattern is
\* longer than 100 characters, has a denylisted shape or does not compile is
\* rejected by validation, and findSimilarSubscriptionsAndInvoices, which
\* fetches the subscriptions and compiles the pattern into the matcher, is
\* never invoked for it; a call whose namePattern is safe passes validation
\* with the pattern unchanged.
C25_UnsafePatternNeverReachesMatcher ==
  (/\ hpc # "idle"
   /\ request.name = "find_similar_subscriptions_and_invoices"
   /\ IsStr(Get(request.args, "namePattern"))
   /\ Get(request.args, "organizationId") = Org)
    => LET pattern == request.args.namePattern.str
           unsafe == Len(pattern) > 100 \/ MatchesDangerous(pattern) \/ ~Compiles(pattern)
       IN  IF unsafe
             THEN /\ validateToolInput(request.name, request.args).threw
                  /\ invoked = <<>>
                  /\ hpc \in {"validate", "returned"}
             ELSE /\ ~validateToolInput(request.name, request.args).threw
                  /\ validateAsync(request.name, request.args).value.namePattern
                       = StrV(pattern)
                  /\ validateRegexPattern(pattern) = [value |-> pattern]

\* part_000 has answered a call whose pattern does not compile with an
\* error, and no client operation was invoked
C25_UncompilablePatternAnswered ==
  /\ config.entry = "part_000"
  /\ hpc = "returned"
  /\ request.name = "find_similar_subscriptions_and_invoices"
  /\ Get(request.args, "namePattern") = StrV("(")
  /\ response.isError
  /\ response.text = "Invalid input: validation"
  /\ invoked = <<>>

\* C26: validateToolInput rejects every call of a catalog tool in which one
\* of the tool's ID fields (organizationId, subscriptionId, invoiceProfileId,
\* azurePlanId, customerTenantId) is not a positive integer, its pageSize is
\* outside [1,500], its monthsBack outside [1,24] or its
\* changeThresholdPercent outside [1,100] (a numeric string counting as the
\* number it spells), and accepts every call that carries the tool's required
\* fields and only fields of these kinds with values inside the ranges.
C26_IdsAndRangesDecideValidation ==
  (hpc # "idle" /\ request.name \in tools) =>
    LET tool == request.name
        args == request.args
        IdFields == {"organizationId", "subscriptionId", "invoiceProfileId",
                     "azurePlanId", "customerTenantId"}
        Ranged == IdFields \cup {"pageSize", "monthsBack", "changeThresholdPercent"}
        declared == IF tool \in SchemaNames THEN DOMAIN schemas(tool) ELSE Ranged
        \* the required fields: of the Joi schema, or of the catalog's
        \* inputSchema (part_000:414, 440, 544, 558) for a tool without one
        required ==
          IF tool \in SchemaNames
            THEN {f \in DOMAIN schemas(tool) : schemas(tool)[f].required}
          ELSE CASE tool = "get_azure_costs_by_date_range" -> {"organizationId", "from", "to"}
                 [] tool = "get_azure_costs_by_subscription" ->
                      {"azurePlanId", "subscriptionId", "from", "to"}
                 [] tool = "get_last_month_costs_by_organization" -> {"organizationId"}
                 [] tool = "get_last_month_costs_by_invoice_profile" -> {"organizationId"}
        between(n, lo, hi) ==
          IF IsInt(n) THEN lo <= n.int /\ n.int <= hi
          ELSE lo * n.frac[2] <= n.frac[1] /\ n.frac[1] <= hi * n.frac[2]
        inRange(f) ==
          LET n == ToNumber(args[f]) IN
          /\ n # Undefined
          /\ f \in IdFields => IsInt(n) /\ n.int > 0
          /\ f = "pageSize" => IsInt(n) /\ between(n, 1, 500)
          /\ f = "monthsBack" => IsInt(n) /\ between(n, 1, 24)
          /\ f = "changeThresholdPercent" => between(n, 1, 100)
        threw == validateToolInput(tool, args).threw
    IN  IF ~IsObject(args) THEN TRUE
        ELSE /\ (\E f \in DOMAIN args \cap Ranged \cap declared : ~inRange(f)) => threw
             /\ (/\ required \subseteq DOMAIN args
                 /\ DOMAIN args \subseteq Ranged \cap declared
                 /\ \A f \in DOMAIN args : inRange(f)) => ~threw

\* C27: for a tool with a schema and arguments a that validateToolInput
\* accepts, validateToolInput applied to its own result succeeds and returns
\* that result again.
C27_ValidationIsIdempotent ==
  (/\ hpc # "idle"
   /\ request.name \in SchemaNames
   /\ ~validateToolInput(request.name, request.args).threw)
    => LET once == validateToolInput(request.name, request.args).value
           twice == validateToolInput(request.name, once)
       IN  /\ ~twice.threw
           /\ twice.value = once

\* C28: detectCostAnomalies returns at most 50 anomalies, each of them one of
\* the flagged pairs and none twice; anomaliesFound is the number of flagged
\* pairs, returned or not; and no flagged pair that is left out has a
\* changePercent greater in absolute value than that of a returned one.
C28_TopFiftyOfAllFlagged ==
  callee = "detectCostAnomalies" =>
    LET all == ForEachSubscription(SubscriptionKeys(input.Items), input.Items,
                                   input.changeThresholdPercent)
        flagged == {all[i] : i \in 1..Len(all)}
        returned == {output.anomalies[k] : k \in 1..Len(output.anomalies)}
    IN  /\ Len(output.anomalies) <= 50
        /\ output.anomaliesFound = Len(all)
        /\ Cardinality(flagged) = Len(all)
        /\ Len(output.anomalies) = (IF Len(all) < 50 THEN Len(all) ELSE 50)
        /\ Cardinality(returned) = Len(output.anomalies)
        /\ returned \subseteq flagged
        /\ \A left \in flagged \ returned : \A kept \in returned :
             MathAbs(left.changePercent) <= MathAbs(kept.changePercent)

\* 53 pairs of a history of 54 months are flagged: 50 are returned, the
\* jumps of 300 percent before the drops of 75 percent, and anomaliesFound is 53
C28_FiftyThreeFlaggedFiftyReturned ==
  /\ callee = "detectCostAnomalies"
  /\ output.anomaliesFound = 53
  /\ Len(output.anomalies) = 50
  /\ output.anomalies[1].changePercent = 30000
  /\ output.anomalies[50].changePercent = -7500

\* C29: the transports map has an entry for a session id only if a transport
\* was initialized with that id and has not closed; and a request with a
\* session id that has no entry, or with no session id that is not a POST
\* initialize, is answered 400, is handled by no transport and creates none.
C29_OnlyLiveSessionsAreServed ==
  /\ [](\A s \in DOMAIN transports :
          LET t == sessions[transports[s]] IN
          t.initialized /\ ~t.closed /\ t.sessionId = StrV(s))
  /\ [][LET req == input'
            known == Truthy(req.sessionId) /\ req.sessionId.str \in DOMAIN transports
            opening == /\ ~Truthy(req.sessionId)
                       /\ req.method = "POST"
                       /\ req.bodyMethod = "initialize"
        IN  (callee' = "mcp" /\ ~known /\ ~opening)
              => /\ output' = Reply(400, 0, FALSE)
                 /\ UNCHANGED <<transports, sessions>>]_vars

\* C30: when the token request of an authenticate call fails, the call and
\* the method that made it throw, no other token request is sent in its
\* place, accessToken and tokenExpiry stay as they were, and no data request
\* is sent.
C30_FailedTokenRequestChangesNothing ==
  [][lastRequest'.kind = "tokenFailure"
       => /\ \E f \in DOMAIN fibers :
               fibers[f].st = "awaitToken" /\ f \notin DOMAIN fibers'
          /\ UNCHANGED <<accessToken, tokenExpiry>>
          /\ Cardinality({f \in DOMAIN fibers' : fibers'[f].st = "awaitToken"})
               = Cardinality({f \in DOMAIN fibers : fibers[f].st = "awaitToken"}) - 1
          /\ {f \in DOMAIN fibers' : fibers'[f].st = "awaitData"}
               \subseteq {f \in DOMAIN fibers : fibers[f].st = "awaitData"}]_vars

\* a token request has failed while an older token was cached: the token is
\* still cached
C30_StaleTokenSurvivesFailure ==
  /\ lastRequest.kind = "tokenFailure"
  /\ accessToken # NoToken
  /\ tokenExpiry <= now + RefreshMargin
=============================================================================
